---- MODULE Spec2Model ----
(***************************************************************************)
(* The recommendation and social-graph subsystem of social-app-quick.      *)
(*                                                                         *)
(*   Neo4jService            (services/neo4j.ts)                            *)
(*   RecommendationService   (services/recommendationService.ts)           *)
(*                                                                         *)
(* The JavaScript run-time is single threaded: the code between two awaits *)
(* runs as one step, and calls interleave only at awaits that wait for the *)
(* graph store or the document store.  Every action below is one such      *)
(* step.  A Cypher statement handed to session.run is executed by the      *)
(* store as one atomic step.                                               *)
(***************************************************************************)
EXTENDS Integers, Sequences, FiniteSets, TLC

VARIABLES
    nodes,        \* graph store: ids of the :User nodes
    follows,      \* graph store: number of FOLLOWS relationships per ordered pair
    callbacks,    \* neo4j.ts: cacheInvalidationCallbacks
    gcall,        \* the followUser / unfollowUser call of each graph client
    cache,        \* RecommendationService.recommendationsCache
    clock,        \* Date.now(), in milliseconds since the start of the run
    docs,         \* document store: ids of the post records that exist
    rcall,        \* the getRecommendedPosts / getTrendingPosts call of each feed client
    preexisting,  \* history: per graph client, the cache keys whose entry object
                  \* was already in the cache when its current call began
    neo           \* Neo4jService: driver, connectionPromise, the promises made,
                  \* and history: drivers constructed, sessions open

vars == <<nodes, follows, callbacks, gcall, cache, clock, docs, rcall, preexisting, neo>>

----------------------------------------------------------------------------
(* Bounds of the model *)

NumGraphClients == 2
NumFeedClients == 1
MaxCallbacks == 2
MaxInits == 2

Users == {"u1", "u2", "u3", "u4", "u5"}
GraphClients == 1..NumGraphClients
FeedClients == 1..NumFeedClients

NoUser == ""

(* null, for the driver and for connectionPromise *)
Null == 0

(* A graph call that has not been issued.  a, b, skip, lim: its arguments;  *)
(* awaits: the promise its getSession awaits; records: the number of       *)
(* records of the result on its way back from the store; ret: the boolean,  *)
(* val: the other value it returns; err: it rejected.                       *)
IdleCall ==
    [op |-> "none", a |-> NoUser, b |-> NoUser, skip |-> 0, lim |-> 0, pc |-> "idle",
     awaits |-> Null, records |-> 0, ret |-> FALSE, val |-> <<>>, err |-> FALSE,
     log |-> <<>>, evicted |-> {}]

----------------------------------------------------------------------------
(* The graph store: what the Cypher statements of neo4j.ts compute.  A      *)
(* graph is the pair (n, f): n the ids of the :User nodes, f the number of  *)
(* FOLLOWS relationships from one id to another.  A relationship is the     *)
(* triple <<from, to, i>>, i numbering the relationships of one pair.  The  *)
(* domain of f is the pairs of the ids a run can name.                      *)

Pairs == Users \X Users

RelInstances(f) ==
    UNION {{<<p[1], p[2], i>> : i \in 1..f[p]} : p \in DOMAIN f}

(* MATCH (x:User {id: a})-[r:FOLLOWS]->(y:User {id: b}) *)
MatchFollows(n, f, a, b) ==
    IF a \in n /\ b \in n /\ <<a, b>> \in DOMAIN f
    THEN {<<a, b, i>> : i \in 1..f[<<a, b>>]}
    ELSE {}

(* MERGE (follower:User {id: a}) MERGE (following:User {id: b}) *)
EnsureUsers(n, a, b) == n \cup {a, b}

(* MATCH (follower), (following) MERGE (follower)-[r:FOLLOWS]->(following):  *)
(* with both nodes matched, the relationships of the pair are bound when    *)
(* there are any, and one is created when there is none.                    *)
MergeFollowsDuplicating(n, f, a, b) ==
    IF a \in n /\ b \in n
    THEN [f EXCEPT ![<<a, b>>] = @ + 1]
    ELSE f

MergeFollows(n, f, a, b) ==
    IF a \in n /\ b \in n /\ f[<<a, b>>] = 0
    THEN [f EXCEPT ![<<a, b>>] = 1]
    ELSE f

(* RETURN r of the merge statement: one record per relationship bound or created. *)
MergeRecords(n, f, a, b) == Cardinality(MatchFollows(n, MergeFollows(n, f, a, b), a, b))

(* MATCH (follower)-[r:FOLLOWS]->(following) DELETE r RETURN r *)
DeleteRecordsAlways(n, f, a, b) == 1

DeleteRecords(n, f, a, b) == Cardinality(MatchFollows(n, f, a, b))

DeleteFollows(n, f, a, b) ==
    IF a \in n /\ b \in n THEN [f EXCEPT ![<<a, b>>] = 0] ELSE f

(* getFollowersCount: MATCH (u:User {id})<-[r:FOLLOWS]-() RETURN count(r) *)
getFollowersCount(n, f, u) ==
    Cardinality({r \in RelInstances(f) : r[2] = u /\ r[1] \in n /\ u \in n})

(* getFollowingCount: MATCH (u:User {id})-[r:FOLLOWS]->() RETURN count(r) *)
getFollowingCount(n, f, u) ==
    Cardinality({r \in RelInstances(f) : r[1] = u /\ r[2] \in n /\ u \in n})

(* isFollowing: RETURN count(r) > 0 *)
isFollowing(n, f, a, b) == Cardinality(MatchFollows(n, f, a, b)) > 0

(* isMutualFollow written as one path pattern; within one MATCH a relationship *)
(* is bound at most once.                                                      *)
isMutualFollowOnePattern(n, f, a, b) ==
    LET rows == {rr \in MatchFollows(n, f, a, b) \X MatchFollows(n, f, b, a) :
                    rr[1] # rr[2]}
    IN  Cardinality(rows) > 0

(* isMutualFollow: two MATCH clauses, RETURN count of rows > 0; the aggregate *)
(* always yields one record, so records[0]?.get(..) || false is its value.  *)
isMutualFollow(n, f, a, b) ==
    LET rows == MatchFollows(n, f, a, b) \X MatchFollows(n, f, b, a)
    IN  Cardinality(rows) > 0

----------------------------------------------------------------------------
(* Cache invalidation: RecommendationService.invalidateUserCache and the    *)
(* callback registry of neo4j.ts.                                           *)

EmptyCache == [k \in {} |-> {}]

(* invalidateUserCache as a clear() of the whole map: the entries of every *)
(* user go, and the trending entries with them.                             *)
invalidateUserCacheAll(c, userId) ==
    [k \in {k \in DOMAIN c : FALSE} |-> c[k]]

(* for (const [key, cache] of entries) if (cache.userId === userId) delete(key) *)
invalidateUserCache(c, userId) ==
    [k \in {k \in DOMAIN c : c[k].userId # userId} |-> c[k]]

(* What a registered callback does to the cache when invoked with userId:   *)
(* the engine's callback evicts; a callback of another subscriber does not  *)
(* touch the engine's cache.                                                *)
Invoke(cb, c, userId) ==
    IF cb = "invalidateUserCache" THEN invalidateUserCache(c, userId) ELSE c

(* The body of the forEach: callback(followerId); callback(followingId). *)
CallbackArgsFollowerOnly(followerId, followingId) == <<followerId>>

CallbackArgs(followerId, followingId) == <<followerId, followingId>>

RECURSIVE InvokeAll(_, _, _)
InvokeAll(cb, c, args) ==
    IF args = <<>> THEN c
    ELSE InvokeAll(cb, Invoke(cb, c, Head(args)), Tail(args))

(* cacheInvalidationCallbacks.forEach(...): the cache after the callbacks   *)
(* from index i on have run.                                                *)
RECURSIVE NotifyCache(_, _, _, _, _)
NotifyCache(cbs, i, c, a, b) ==
    IF i > Len(cbs) THEN c
    ELSE NotifyCache(cbs, i + 1, InvokeAll(cbs[i], c, CallbackArgs(a, b)), a, b)

(* The invocations the forEach makes, in order: <<index of callback, argument>>. *)
NotifyLog(cbs, a, b) ==
    LET args == CallbackArgs(a, b)
        m == Len(args)
    IN  [k \in 1..(m * Len(cbs)) |->
            <<((k - 1) \div m) + 1, args[((k - 1) % m) + 1]>>]

(* History: an entry object that was evicted or overwritten is no longer    *)
(* the object a graph client saw when its call began.                       *)
Forget(pre, keys) == [q \in GraphClients |-> pre[q] \ keys]

----------------------------------------------------------------------------
(* Neo4jService: the driver and its initialization.  Promises are numbered  *)
(* in the order in which initializeDriver created them; promises[i] is      *)
(* pending, resolved or rejected.  Drivers are numbered likewise; built is  *)
(* the number of drivers constructed so far, open the number of sessions    *)
(* obtained and not yet closed, closing whether a call of close() is at its *)
(* await of driver.close().                                                 *)

(* private driver = null; private connectionPromise = null *)
NewService ==
    [driver |-> Null, connectionPromise |-> Null, promises |-> <<>>,
     built |-> 0, open |-> 0, closing |-> FALSE]

(* initializeDriver creating a new promise whenever it is called. *)
initializeDriverUnguarded(s, constructed) ==
    IF constructed
    THEN [s EXCEPT !.promises = Append(@, "pending"),
                   !.connectionPromise = Len(s.promises) + 1,
                   !.driver = s.built + 1,
                   !.built = @ + 1]
    ELSE [s EXCEPT !.promises = Append(@, "rejected"),
                   !.connectionPromise = Len(s.promises) + 1,
                   !.driver = Null]

(* initializeDriver up to its return: without a connectionPromise the       *)
(* executor of a new promise runs at once; neo4j.driver(..) returns a       *)
(* driver (constructed) and verifyConnectivity is pending, or it throws and *)
(* the catch clears both fields and rejects -- after which the assignment   *)
(* of the new promise to connectionPromise takes place.                     *)
initializeDriver(s, constructed) ==
    IF s.connectionPromise # Null THEN s
    ELSE IF constructed
    THEN [s EXCEPT !.promises = Append(@, "pending"),
                   !.connectionPromise = Len(s.promises) + 1,
                   !.driver = s.built + 1,
                   !.built = @ + 1]
    ELSE [s EXCEPT !.promises = Append(@, "rejected"),
                   !.connectionPromise = Len(s.promises) + 1,
                   !.driver = Null]

(* A call of initializeDriver is possible within the bound on promises. *)
CanInitialize == neo.connectionPromise # Null \/ Len(neo.promises) < MaxInits

(* verifyConnectivity() resolves: resolve(). *)
VerifyOk ==
    /\ \E i \in 1..Len(neo.promises) :
          /\ neo.promises[i] = "pending"
          /\ neo' = [neo EXCEPT !.promises[i] = "resolved"]
    /\ UNCHANGED <<nodes, follows, callbacks, gcall, cache, clock, docs, rcall, preexisting>>

(* verifyConnectivity() rejecting without the two fields being reset. *)
VerifyFailKept ==
    /\ \E i \in 1..Len(neo.promises) :
          /\ neo.promises[i] = "pending"
          /\ neo' = [neo EXCEPT !.promises[i] = "rejected"]
    /\ UNCHANGED <<nodes, follows, callbacks, gcall, cache, clock, docs, rcall, preexisting>>

(* verifyConnectivity() rejects: driver = null, connectionPromise = null,   *)
(* reject(error).                                                           *)
VerifyFail ==
    /\ \E i \in 1..Len(neo.promises) :
          /\ neo.promises[i] = "pending"
          /\ neo' = [neo EXCEPT !.promises[i] = "rejected",
                                !.driver = Null,
                                !.connectionPromise = Null]
    /\ UNCHANGED <<nodes, follows, callbacks, gcall, cache, clock, docs, rcall, preexisting>>

(* close() up to its await: const driver = this.driver; if (driver) await   *)
(* driver.close().  Without a driver close() returns having done nothing.   *)
CloseBegin ==
    /\ neo.driver # Null /\ ~neo.closing
    /\ neo' = [neo EXCEPT !.closing = TRUE]
    /\ UNCHANGED <<nodes, follows, callbacks, gcall, cache, clock, docs, rcall, preexisting>>

(* driver.close() has resolved: this.driver = null;                         *)
(* this.connectionPromise = null.                                           *)
CloseEnd ==
    /\ neo.closing
    /\ neo' = [neo EXCEPT !.closing = FALSE, !.driver = Null, !.connectionPromise = Null]
    /\ UNCHANGED <<nodes, follows, callbacks, gcall, cache, clock, docs, rcall, preexisting>>

(* driver.close() has rejected: close() rejects at its await, outside any   *)
(* try, and the two assignments do not run; driver and connectionPromise    *)
(* stay as they are.                                                        *)
CloseEndFail ==
    /\ neo.closing
    /\ neo' = [neo EXCEPT !.closing = FALSE]
    /\ UNCHANGED <<nodes, follows, callbacks, gcall, cache, clock, docs, rcall, preexisting>>

(* The first step of every operation that begins with                       *)
(* const session = await this.getSession(): initializeDriver is called and  *)
(* its promise awaited.                                                     *)
Begin(p, call) ==
    /\ gcall[p].pc = "idle"
    /\ CanInitialize
    /\ \E constructed \in BOOLEAN :
          /\ neo' = initializeDriver(neo, constructed)
          /\ gcall' = [gcall EXCEPT ![p] =
                  [call EXCEPT !.pc = "session", !.awaits = neo'.connectionPromise]]

----------------------------------------------------------------------------
(* Neo4jService.followUser and unfollowUser, one action per step between    *)
(* awaits.  pc: idle, session (awaiting getSession), ensure, merge, delete  *)
(* (that statement sent), merged, deleted (the store has run the statement, *)
(* its result is on its way back), closing (awaiting session.close in       *)
(* finally), done (settled: ret is the value returned, err says it          *)
(* rejected).                                                               *)

StartFollow(p, a, b) ==
    /\ Begin(p, [IdleCall EXCEPT !.op = "follow", !.a = a, !.b = b])
    /\ preexisting' = [preexisting EXCEPT ![p] = DOMAIN cache]
    /\ UNCHANGED <<nodes, follows, callbacks, cache, clock, docs, rcall>>

StartUnfollow(p, a, b) ==
    /\ Begin(p, [IdleCall EXCEPT !.op = "unfollow", !.a = a, !.b = b])
    /\ preexisting' = [preexisting EXCEPT ![p] = DOMAIN cache]
    /\ UNCHANGED <<nodes, follows, callbacks, cache, clock, docs, rcall>>

(* getSession after the promise it awaited resolved: const driver =        *)
(* this.driver; return driver.session().  The operation goes on to its     *)
(* first statement.                                                         *)
GetSession(p) ==
    /\ gcall[p].pc = "session"
    /\ neo.promises[gcall[p].awaits] = "resolved"
    /\ neo.driver # Null
    /\ neo' = [neo EXCEPT !.open = @ + 1]
    /\ gcall' = [gcall EXCEPT ![p].pc =
            CASE gcall[p].op = "follow" -> "ensure"
              [] gcall[p].op = "unfollow" -> "delete"
              [] OTHER -> "query"]
    /\ UNCHANGED <<nodes, follows, callbacks, cache, clock, docs, rcall, preexisting>>

(* getSession throws: the promise it awaited rejected, or there is no       *)
(* driver; the operation rejects before its try block.                      *)
GetSessionFail(p) ==
    /\ gcall[p].pc = "session"
    /\ \/ neo.promises[gcall[p].awaits] = "rejected"
       \/ neo.promises[gcall[p].awaits] = "resolved" /\ neo.driver = Null
    /\ gcall' = [gcall EXCEPT ![p].pc = "done", ![p].err = TRUE]
    /\ UNCHANGED <<nodes, follows, callbacks, cache, clock, docs, rcall, preexisting, neo>>

(* followUser, first statement: both user nodes are merged. *)
FollowEnsure(p) ==
    /\ gcall[p].pc = "ensure"
    /\ nodes' = EnsureUsers(nodes, gcall[p].a, gcall[p].b)
    /\ gcall' = [gcall EXCEPT ![p].pc = "merge"]
    /\ UNCHANGED <<follows, callbacks, cache, clock, docs, rcall, preexisting, neo>>

(* followUser, first statement fails: catch rethrows, finally closes. *)
FollowEnsureFail(p) ==
    /\ gcall[p].pc = "ensure"
    /\ gcall' = [gcall EXCEPT ![p].pc = "closing", ![p].err = TRUE]
    /\ UNCHANGED <<nodes, follows, callbacks, cache, clock, docs, rcall, preexisting, neo>>

(* The continuation of await session.run(..) once the result has arrived:  *)
(* the callbacks run, synchronously, and the return value is computed.      *)
Notified(p, records) ==
    LET a == gcall[p].a
        b == gcall[p].b
        c == NotifyCache(callbacks, 1, cache, a, b)
        gone == DOMAIN cache \ DOMAIN c
    IN  /\ cache' = c
        /\ preexisting' = Forget(preexisting, gone)
        /\ gcall' = [gcall EXCEPT ![p].pc = "closing",
                                  ![p].ret = (records > 0),
                                  ![p].log = NotifyLog(callbacks, a, b),
                                  ![p].evicted = gone]

(* followUser, second statement: the store merges the relationship; the    *)
(* result is on its way back.                                               *)
FollowMerge(p) ==
    /\ gcall[p].pc = "merge"
    /\ follows' = MergeFollows(nodes, follows, gcall[p].a, gcall[p].b)
    /\ gcall' = [gcall EXCEPT ![p].pc = "merged",
                              ![p].records =
                                  MergeRecords(nodes, follows, gcall[p].a, gcall[p].b)]
    /\ UNCHANGED <<nodes, callbacks, cache, clock, docs, rcall, preexisting, neo>>

(* followUser after its second await: the callbacks are notified and        *)
(* records.length > 0 is the return value.                                  *)
FollowNotify(p) ==
    /\ gcall[p].pc = "merged"
    /\ Notified(p, gcall[p].records)
    /\ UNCHANGED <<nodes, follows, callbacks, clock, docs, rcall, neo>>

(* followUser notifying in its finally block: a failed merge notifies too. *)
FollowMergeFailNotifying(p) ==
    /\ gcall[p].pc = "merge"
    /\ cache' = NotifyCache(callbacks, 1, cache, gcall[p].a, gcall[p].b)
    /\ preexisting' = Forget(preexisting, DOMAIN cache \ DOMAIN cache')
    /\ gcall' = [gcall EXCEPT ![p].pc = "closing", ![p].err = TRUE,
                              ![p].log = NotifyLog(callbacks, gcall[p].a, gcall[p].b),
                              ![p].evicted = DOMAIN cache \ DOMAIN cache']
    /\ UNCHANGED <<nodes, follows, callbacks, clock, docs, rcall, neo>>

(* followUser with a catch block that returns false instead of rethrowing. *)
FollowMergeFailSwallowed(p) ==
    /\ gcall[p].pc = "merge"
    /\ gcall' = [gcall EXCEPT ![p].pc = "closing", ![p].ret = FALSE]
    /\ UNCHANGED <<nodes, follows, callbacks, cache, clock, docs, rcall, preexisting, neo>>

(* followUser, second statement fails: nothing is notified. *)
FollowMergeFail(p) ==
    /\ gcall[p].pc = "merge"
    /\ gcall' = [gcall EXCEPT ![p].pc = "closing", ![p].err = TRUE]
    /\ UNCHANGED <<nodes, follows, callbacks, cache, clock, docs, rcall, preexisting, neo>>

(* unfollowUser: the store deletes the relationship if there is one; the   *)
(* result is on its way back.                                               *)
UnfollowDelete(p) ==
    /\ gcall[p].pc = "delete"
    /\ follows' = DeleteFollows(nodes, follows, gcall[p].a, gcall[p].b)
    /\ gcall' = [gcall EXCEPT ![p].pc = "deleted",
                              ![p].records =
                                  DeleteRecords(nodes, follows, gcall[p].a, gcall[p].b)]
    /\ UNCHANGED <<nodes, callbacks, cache, clock, docs, rcall, preexisting, neo>>

(* unfollowUser notifying only when it deleted a relationship. *)
UnfollowNotifyIfFound(p) ==
    /\ gcall[p].pc = "deleted"
    /\ IF gcall[p].records > 0
       THEN Notified(p, gcall[p].records)
       ELSE /\ gcall' = [gcall EXCEPT ![p].pc = "closing", ![p].ret = FALSE]
            /\ UNCHANGED <<cache, preexisting>>
    /\ UNCHANGED <<nodes, follows, callbacks, clock, docs, rcall, neo>>

(* unfollowUser after its await: the callbacks are notified, whether or not *)
(* a relationship was deleted, and records.length > 0 is the return value.  *)
UnfollowNotify(p) ==
    /\ gcall[p].pc = "deleted"
    /\ Notified(p, gcall[p].records)
    /\ UNCHANGED <<nodes, follows, callbacks, clock, docs, rcall, neo>>

(* unfollowUser, the statement fails: the error propagates through finally. *)
UnfollowDeleteFail(p) ==
    /\ gcall[p].pc = "delete"
    /\ gcall' = [gcall EXCEPT ![p].pc = "closing", ![p].err = TRUE]
    /\ UNCHANGED <<nodes, follows, callbacks, cache, clock, docs, rcall, preexisting, neo>>

(* finally { await session.close() }: session.close() resolves and the     *)
(* call settles with the outcome of its try block.                          *)
CloseSession(p) ==
    /\ gcall[p].pc = "closing"
    /\ gcall' = [gcall EXCEPT ![p].pc = "done"]
    /\ neo' = [neo EXCEPT !.open = @ - 1]
    /\ UNCHANGED <<nodes, follows, callbacks, cache, clock, docs, rcall, preexisting>>

(* finally { await session.close() }: session.close() rejects, and its      *)
(* rejection replaces the outcome of the try block.                         *)
CloseSessionFail(p) ==
    /\ gcall[p].pc = "closing"
    /\ gcall' = [gcall EXCEPT ![p].pc = "done", ![p].err = TRUE,
                              ![p].ret = FALSE, ![p].val = <<>>]
    /\ neo' = [neo EXCEPT !.open = @ - 1]
    /\ UNCHANGED <<nodes, follows, callbacks, cache, clock, docs, rcall, preexisting>>

(* The caller has taken the result; the client may issue its next call. *)
GraphReturn(p) ==
    /\ gcall[p].pc = "done"
    /\ gcall' = [gcall EXCEPT ![p] = IdleCall]
    /\ preexisting' = [preexisting EXCEPT ![p] = {}]
    /\ UNCHANGED <<nodes, follows, callbacks, cache, clock, docs, rcall, neo>>

(* registerCacheInvalidationCallback called by another subscriber. *)
Register ==
    /\ Len(callbacks) < MaxCallbacks
    /\ callbacks' = Append(callbacks, "observer")
    /\ UNCHANGED <<nodes, follows, gcall, cache, clock, docs, rcall, preexisting, neo>>

----------------------------------------------------------------------------
(* The document store.  The engine only reads it; the records a run can see *)
(* are fixed below, and docs says which of them exist.  likes and comments  *)
(* are the lengths of the two lists; createdAt is in milliseconds on the    *)
(* clock of the model.                                                      *)

PostIds == {"p1", "p2", "p3"}

Post ==
    [p1 |-> [authorId |-> "u3", createdAt |-> 0 - 7200000, likes |-> 12, comments |-> 0],
     p2 |-> [authorId |-> "u3", createdAt |-> 0 - 3600000, likes |-> 12, comments |-> 0],
     p3 |-> [authorId |-> "u2", createdAt |-> 0,           likes |-> 0,  comments |-> 1],
     p4 |-> [authorId |-> "u4", createdAt |-> 0 - 7200000, likes |-> 12, comments |-> 0]]

CACHE_TTL == 15 * 60 * 1000
MAX_CACHED_POSTS == 50

(* The instants Date.now() takes in a run: the start, and one second before, *)
(* exactly at and one second after the lifetime of an entry stored at the    *)
(* start.                                                                    *)
ClockValues == {0, CACHE_TTL - 1000, CACHE_TTL, CACHE_TTL + 1000}

ExcludeChoices == {{}, {"p1"}, {"p1", "p2"}}

Min(x, y) == IF x <= y THEN x ELSE y

(* Array.prototype.slice(0, k) *)
Take(s, k) == SubSeq(s, 1, Min(k, Len(s)))

(* Array.prototype.filter(post => !excludePostIds.includes(post.id)) *)
Exclude(s, excludePostIds) ==
    LET Keep(x) == x \notin excludePostIds
    IN  SelectSeq(s, Keep)

(* Array.prototype.sort with a consistent comparator (stable since ES2019): *)
(* x comes before y when Before(x, y), and equal elements keep their order. *)
StableSort(s, Before(_, _)) ==
    LET n == Len(s)
        before == [i \in 1..n |-> [j \in 1..n |-> Before(s[i], s[j])]]
        Ahead(j, i) == before[j][i] \/ (~before[i][j] /\ j < i)
        rank == [i \in 1..n |-> 1 + Cardinality({j \in 1..n : j # i /\ Ahead(j, i)})]
    IN  [k \in 1..n |-> s[CHOOSE i \in 1..n : rank[i] = k]]

(* orderBy('createdAt', 'desc'), limit(k): ties by document id, descending.  *)
(* Document ids are compared through their position in IdOrder.              *)
IdOrder == <<"p1", "p2", "p3", "p4">>

IdIndex(id) == CHOOSE i \in 1..Len(IdOrder) : IdOrder[i] = id

NewerFirst(x, y) ==
    \/ Post[x].createdAt > Post[y].createdAt
    \/ (Post[x].createdAt = Post[y].createdAt /\ IdIndex(x) > IdIndex(y))

OrderedByCreatedAtDesc(ids, k) ==
    LET n == Cardinality(ids)
        Rank(x) == 1 + Cardinality({y \in ids : NewerFirst(y, x)})
    IN  Take([i \in 1..n |-> CHOOSE x \in ids : Rank(x) = i], k)

----------------------------------------------------------------------------
(* Exact comparison of products too large for machine integers: a natural  *)
(* number is the sequence of its base-100 digits, least significant first.  *)

Base == 100

RECURSIVE BigTimes(_, _, _)
BigTimes(x, k, carry) ==
    IF x = <<>>
    THEN IF carry = 0 THEN <<>>
         ELSE <<carry % Base>> \o BigTimes(<<>>, k, carry \div Base)
    ELSE LET t == Head(x) * k + carry
         IN  <<t % Base>> \o BigTimes(Tail(x), k, t \div Base)

RECURSIVE BigTimesPow(_, _, _)
BigTimesPow(x, k, e) ==
    IF e = 0 THEN x ELSE BigTimesPow(BigTimes(x, k, 0), k, e - 1)

RECURSIVE BigTrim(_)
BigTrim(x) ==
    IF x # <<>> /\ x[Len(x)] = 0 THEN BigTrim(SubSeq(x, 1, Len(x) - 1)) ELSE x

RECURSIVE BigGreaterFrom(_, _, _)
BigGreaterFrom(x, y, i) ==
    IF i = 0 THEN FALSE
    ELSE IF x[i] # y[i] THEN x[i] > y[i]
    ELSE BigGreaterFrom(x, y, i - 1)

BigGreater(x0, y0) ==
    LET x == BigTrim(x0)
        y == BigTrim(y0)
    IN  IF Len(x) # Len(y) THEN Len(x) > Len(y)
        ELSE BigGreaterFrom(x, y, Len(x))

----------------------------------------------------------------------------
(* getTrendingPosts: the scoring and the sort.                              *)

(* Twice likesCount + commentsCount * 1.5, to stay in the integers. *)
Engagement2(x) == 2 * Post[x].likes + 3 * Post[x].comments

(* trendingScore = hours > 0 ? engagement / hours^0.8 : engagement, that is *)
(* engagement / (age / 1h)^0.8 with age one hour when hours <= 0.           *)
TrendingAge(x, now) ==
    IF now - Post[x].createdAt > 0 THEN now - Post[x].createdAt ELSE 1000 * 60 * 60

(* score(x) > score(y), decided exactly: e_x / a_x^0.8 > e_y / a_y^0.8 iff   *)
(* e_x^5 * a_y^4 > e_y^5 * a_x^4.                                            *)
TrendingHigher(x, y, now) ==
    BigGreater(
        BigTimesPow(BigTimesPow(<<1>>, Engagement2(x), 5), TrendingAge(y, now), 4),
        BigTimesPow(BigTimesPow(<<1>>, Engagement2(y), 5), TrendingAge(x, now), 4))

(* The comparisons of the stored posts at the times of the clock, computed  *)
(* once.                                                                    *)
TrendingOrder ==
    [now \in ClockValues |->
        [x \in DOMAIN Post |-> [y \in DOMAIN Post |-> TrendingHigher(x, y, now)]]]

(* scoredPosts.sort((a, b) => b.recommendationScore - a.recommendationScore) *)
SortTrending(posts, now) ==
    StableSort(posts, LAMBDA x, y : TrendingOrder[now][x][y])

(* The posts getTrendingPosts ranks after a successful query: the 100 most  *)
(* recent ones, without the excluded ones, by trending score.               *)
TrendingBatch == 100

TrendingSorted(d, excludePostIds, now) ==
    SortTrending(Exclude(OrderedByCreatedAtDesc(d, TrendingBatch), excludePostIds), now)

----------------------------------------------------------------------------
(* getRecommendedContentCreators: the Cypher statement.  Within one MATCH   *)
(* pattern a relationship is bound at most once.                            *)

UserOrder == <<"u1", "u2", "u3", "u4", "u5">>

UserIndex(u) == CHOOSE i \in 1..Len(UserOrder) : UserOrder[i] = u

(* The patterns without their WHERE clause. *)
CandidateUnfiltered(n, f, u, c) == u \in n /\ c \in n

(* WHERE NOT (user)-[:FOLLOWS]->(c) AND c.id <> $userId *)
Candidate(n, f, u, c) == u \in n /\ c \in n /\ ~isFollowing(n, f, u, c) /\ c # u

(* (user)-[:FOLLOWS]->(friend)-[:FOLLOWS]->(c): the friends that link u to c *)
LinkingFriends(n, f, u, c) ==
    {fr \in n : \E r1 \in MatchFollows(n, f, u, fr), r2 \in MatchFollows(n, f, fr, c) :
                    r1 # r2}

FollowedByFriendsRows(n, f, u) ==
    {[id |-> c, score |-> Cardinality(LinkingFriends(n, f, u, c)),
      reason |-> "followed_by_friends"] :
        c \in {c \in n : Candidate(n, f, u, c) /\ LinkingFriends(n, f, u, c) # {}}}

(* (user)-[:FOLLOWS]->(:User)<-[:FOLLOWS]-(m)-[:FOLLOWS]->(c) *)
SharedFollowers(n, f, u, c) ==
    {m \in n : \E x \in n :
        \E r1 \in MatchFollows(n, f, u, x), r2 \in MatchFollows(n, f, m, x),
           r3 \in MatchFollows(n, f, m, c) : r1 # r2 /\ r1 # r3 /\ r2 # r3}

PopularInNetworkRows(n, f, u) ==
    {[id |-> c, score |-> Cardinality(SharedFollowers(n, f, u, c)),
      reason |-> "popular_in_network"] :
        c \in {c \in n : Candidate(n, f, u, c) /\ SharedFollowers(n, f, u, c) # {}}}

(* ORDER BY score DESC, id LIMIT $limit *)
RowBefore(r, q) ==
    \/ r.score > q.score
    \/ (r.score = q.score /\ UserIndex(r.id) < UserIndex(q.id))

OrderedRows(rows, lim) ==
    LET m == Cardinality(rows)
        Rank(r) == 1 + Cardinality({q \in rows : RowBefore(q, r)})
    IN  Take([i \in 1..m |-> CHOOSE r \in rows : Rank(r) = i], lim)

RowOrders(S) ==
    {s \in [1..Cardinality(S) -> S] : {s[i] : i \in 1..Cardinality(S)} = S}

(* The record lists the statement can return.  ORDER BY and LIMIT belong to *)
(* the RETURN of the second part of the UNION; the store fixes no order for *)
(* the rows of the first part.  UNION drops a row equal to an earlier one.  *)
CreatorsLimit == 20

getRecommendedContentCreators(n, f, u, lim) ==
    LET first == FollowedByFriendsRows(n, f, u)
        second == OrderedRows(PopularInNetworkRows(n, f, u), lim)
        IsNew(r) == r \notin first
    IN  {s \o SelectSeq(second, IsNew) : s \in RowOrders(first)}

----------------------------------------------------------------------------
(* getRecommendedPosts: the post query and rankPosts.                       *)

InClauseLimit == 10

SeqRange(s) == {s[i] : i \in 1..Len(s)}

(* where('authorId', 'in', creatorIds.slice(0, 10)), orderBy createdAt desc, *)
(* limit(count * 3)                                                          *)
CreatorPosts(d, creators, count) ==
    LET ids == {r.id : r \in SeqRange(Take(creators, InClauseLimit))}
    IN  OrderedByCreatedAtDesc({x \in d : Post[x].authorId \in ids}, count * 3)

(* creatorScoreMap.get(authorId) || {score: 1, reason: 'default'}: the map  *)
(* keeps the last row of an id.                                             *)
CreatorInfo(creators, authorId) ==
    LET hits == {i \in 1..Len(creators) : creators[i].id = authorId}
    IN  IF hits = {} THEN [score |-> 1, reason |-> "default"]
        ELSE LET last == CHOOSE i \in hits : \A j \in hits : j <= i
             IN  [score |-> creators[last].score, reason |-> creators[last].reason]

(* recencyScore = 10 / (1 + Math.log(1 + hoursSinceCreation)) in millionths, *)
(* rounded down, for the ages in milliseconds that the posts of Post have at *)
(* the times of ClockValues.                                                 *)
RecencyMicro ==
    (0 :> 10000000 @@ 899000 :> 8177141 @@ 900000 :> 8175655 @@ 901000 :> 8174170
     @@ 3600000 :> 5906161 @@ 4499000 :> 5522400 @@ 4500000 :> 5522023
     @@ 4501000 :> 5521647 @@ 7200000 :> 4765053 @@ 8099000 :> 4590167
     @@ 8100000 :> 4589987 @@ 8101000 :> 4589807)

(* recommendationScore of rankPosts in millionths: the creator's score or 1, *)
(* plus likesCount * 1 + commentsCount * 1.5, plus recencyScore.             *)
recommendationScore(x, creators, now) ==
    1000000 * CreatorInfo(creators, Post[x].authorId).score
        + 500000 * Engagement2(x)
        + RecencyMicro[now - Post[x].createdAt]

(* rankPosts sorting with a sort that reverses the order of equal scores. *)
rankPostsUnstable(posts, creators, now) ==
    StableSort([i \in 1..Len(posts) |-> posts[Len(posts) + 1 - i]],
               LAMBDA x, y : recommendationScore(x, creators, now)
                                > recommendationScore(y, creators, now))

(* scoredPosts.sort((a, b) => b.recommendationScore - a.recommendationScore) *)
rankPosts(posts, creators, now) ==
    StableSort(posts, LAMBDA x, y : recommendationScore(x, creators, now)
                                       > recommendationScore(y, creators, now))

----------------------------------------------------------------------------
(* RecommendationService: the cache.                                        *)

TrendingOwner == "trending"

(* `${userId}:${source}:${count}` *)
getCacheKey(userId, source, count) ==
    userId \o ":" \o source \o ":" \o ToString(count)

isCacheValidInclusive(entry, now) == now - entry.timestamp <= CACHE_TTL

(* ageMs < CACHE_TTL *)
isCacheValid(entry, now) == now - entry.timestamp < CACHE_TTL

(* A set that keeps the entry a key already has. *)
CacheSetIfAbsent(c, key, entry) ==
    [k \in DOMAIN c \cup {key} |-> IF k = key /\ k \notin DOMAIN c THEN entry ELSE c[k]]

(* Map.prototype.set *)
CacheSet(c, key, entry) ==
    [k \in DOMAIN c \cup {key} |-> IF k = key THEN entry ELSE c[k]]

EnoughLeftRoundedDown(left, count) == left >= count \div 2

(* filteredResults.length >= count / 2 *)
EnoughLeft(left, count) == 2 * left >= count

(* The lookup answering a hit with the stored list as it is. *)
CacheLookupUnfiltered(c, now, key, count, excludePostIds, skipNetworkRequests) ==
    LET hit == key \in DOMAIN c /\ isCacheValid(c[key], now)
    IN  IF hit /\ excludePostIds # {} /\ EnoughLeft(Len(c[key].data), count)
        THEN [served |-> TRUE, value |-> Take(c[key].data, count),
              source |-> "cache_filtered"]
        ELSE IF hit /\ excludePostIds = {}
        THEN [served |-> TRUE, value |-> Take(c[key].data, count), source |-> "cache"]
        ELSE IF skipNetworkRequests
        THEN IF hit
             THEN [served |-> TRUE, source |-> "cache_strict_mode",
                   value |-> Take(c[key].data, count)]
             ELSE [served |-> TRUE, value |-> <<>>, source |-> "empty_strict_mode"]
        ELSE [served |-> FALSE, value |-> <<>>, source |-> "miss"]

(* The cache check that opens getRecommendedPosts and getTrendingPosts, and *)
(* the skipNetworkRequests block after it.  served: the call returns value  *)
(* without a query; source is the tag the code gives timer.stop.            *)
CacheLookup(c, now, key, count, excludePostIds, skipNetworkRequests) ==
    LET hit == key \in DOMAIN c /\ isCacheValid(c[key], now)
        filtered == Exclude(c[key].data, excludePostIds)
    IN  IF hit /\ excludePostIds # {} /\ EnoughLeft(Len(filtered), count)
        THEN [served |-> TRUE, value |-> Take(filtered, count), source |-> "cache_filtered"]
        ELSE IF hit /\ excludePostIds = {}
        THEN [served |-> TRUE, value |-> Take(c[key].data, count), source |-> "cache"]
        ELSE IF skipNetworkRequests
        THEN IF hit
             THEN [served |-> TRUE, source |-> "cache_strict_mode",
                   value |-> IF excludePostIds # {} THEN Take(filtered, count)
                             ELSE Take(c[key].data, count)]
             ELSE [served |-> TRUE, value |-> <<>>, source |-> "empty_strict_mode"]
        ELSE [served |-> FALSE, value |-> <<>>, source |-> "miss"]

TrendingKey(count) == getCacheKey(TrendingOwner, "trending", count)

UserKey(userId, count) == getCacheKey(userId, "social_network", count)

(* The entry getRecommendedPosts stores under the user's key. *)
UserEntry(posts, now, userId) ==
    [data |-> Take(posts, MAX_CACHED_POSTS), timestamp |-> now,
     userId |-> userId, source |-> "social_network"]

(* The entry getTrendingPosts stores under the trending key. *)
TrendingEntry(posts, now) ==
    [data |-> Take(posts, MAX_CACHED_POSTS), timestamp |-> now,
     userId |-> TrendingOwner, source |-> "trending"]

(* What the catch block of getTrendingPosts makes of an error. *)
TrendingOnErrorRethrow == [status |-> "rejected", value |-> <<>>, source |-> "error"]

TrendingOnError == [status |-> "resolved", value |-> <<>>, source |-> "error"]

----------------------------------------------------------------------------
(* A call of a feed client.  fn: recommended (getRecommendedPosts) or       *)
(* trending (getTrendingPosts called directly).  pc: idle, session (in      *)
(* getSession of getRecommendedContentCreators, awaiting the promise        *)
(* awaits), creatorsQuery (the statement sent), creatorsClosing (awaiting   *)
(* session.close; failed says the statement failed), postsQuery,            *)
(* trendingQuery (awaiting that query), done.                               *)
(* cont says who awaits getTrendingPosts: direct (the caller), nouser,      *)
(* nocreators or error (those places of getRecommendedPosts).  source is    *)
(* the tag given to timer.stop, via how the getTrendingPosts it awaited     *)
(* answered (cache, cache_filtered, fresh, error, ...), queries the number  *)
(* of store queries the call has issued.                                    *)

IdleFeed ==
    [pc |-> "idle", fn |-> "none", userId |-> NoUser, count |-> 0, excl |-> {},
     skip |-> FALSE, cont |-> "none", creators |-> <<>>, status |-> "none",
     result |-> <<>>, source |-> "none", via |-> "none", queries |-> 0,
     hasSocialCache |-> FALSE, hasTrendingCache |-> FALSE, fetched |-> FALSE,
     posts |-> <<>>, awaits |-> Null, failed |-> FALSE]

(* The function called returns.  preloadCache swallows a rejection of the   *)
(* function it awaits and returns nothing.                                  *)
Settled(call, status, value, source, via) ==
    [call EXCEPT !.pc = "done",
                 !.status = IF call.fn = "preload" THEN "resolved" ELSE status,
                 !.result = IF call.fn = "preload" THEN <<>> ELSE value,
                 !.source = source, !.via = via]

AwaitTrending(call, cont) ==
    [call EXCEPT !.pc = "trendingQuery", !.cont = cont, !.queries = @ + 1]

(* The catch block returning the trending list without storing it. *)
ContinueErrorUnstored(call, c, now, sub) ==
    [cache |-> c, written |-> {},
     call |-> IF sub.status = "rejected"
              THEN Settled(call, "rejected", <<>>, "error", sub.source)
              ELSE Settled(call, "resolved", sub.value, "error_fallback", sub.source)]

(* The catch block of getRecommendedPosts, once getTrendingPosts settled    *)
(* with sub: the list is stored under the user's key and returned.          *)
ContinueError(call, c, now, sub) ==
    IF sub.status = "rejected"
    THEN [cache |-> c, written |-> {}, call |-> Settled(call, "rejected", <<>>, "error", sub.source)]
    ELSE [cache |-> CacheSet(c, UserKey(call.userId, call.count),
                             UserEntry(sub.value, now, call.userId)),
          written |-> {UserKey(call.userId, call.count)},
          call |-> Settled(call, "resolved", sub.value, "error_fallback", sub.source)]

(* An error in the try block of getRecommendedPosts: the catch block calls  *)
(* getTrendingPosts, which answers from the cache or issues its query.      *)
EnterCatch(call, c, now) ==
    LET look == CacheLookup(c, now, TrendingKey(call.count), call.count,
                            call.excl, call.skip)
    IN  IF look.served
        THEN ContinueError(call, c, now,
                 [status |-> "resolved", value |-> look.value, source |-> look.source])
        ELSE [cache |-> c, written |-> {}, call |-> AwaitTrending(call, "error")]

(* getRecommendedPosts(userId, count, excludePostIds, skipNetworkRequests)  *)
(* for a user id, from its cache check to its first await on a store.       *)
EnterRecommended(call, c, now) ==
    LET look == CacheLookup(c, now, UserKey(call.userId, call.count), call.count,
                            call.excl, call.skip)
    IN  IF look.served
        THEN [cache |-> c, written |-> {},
              call |-> Settled(call, "resolved", look.value, look.source, "none")]
        ELSE [cache |-> c, written |-> {},
              call |-> [call EXCEPT !.pc = "session"]]

(* preloadCache after its getTrendingPosts settled, loading the user's feed *)
(* whether or not the entry was valid.                                      *)
AfterPreloadTrendingAlways(call, c, now, sub) ==
    EnterRecommended([call EXCEPT !.fetched = (sub.source = "fresh")], c, now)

(* preloadCache after its getTrendingPosts settled (a rejection is          *)
(* swallowed): if (!hasSocialCache) await getRecommendedPosts(userId, 10,   *)
(* []).  fetched records that the trending query answered.                  *)
AfterPreloadTrending(call, c, now, sub) ==
    LET next == [call EXCEPT !.fetched = (sub.source = "fresh")]
    IN  IF call.hasSocialCache
        THEN [cache |-> c, written |-> {},
              call |-> Settled(next, "resolved", <<>>, "preload", sub.source)]
        ELSE EnterRecommended(next, c, now)

(* The code that awaited getTrendingPosts, once it settled with sub. *)
Continue(call, c, now, sub) ==
    CASE call.cont = "direct" ->
            [cache |-> c, written |-> {},
             call |-> Settled(call, sub.status, sub.value, sub.source, sub.source)]
      [] call.cont = "nouser" ->
            IF sub.status = "rejected" THEN EnterCatch(call, c, now)
            ELSE [cache |-> c, written |-> {},
                  call |-> Settled(call, "resolved", sub.value, "trending_fallback_no_user",
                                   sub.source)]
      [] call.cont = "nocreators" ->
            IF sub.status = "rejected" THEN EnterCatch(call, c, now)
            ELSE [cache |-> CacheSet(c, UserKey(call.userId, call.count),
                                     UserEntry(sub.value, now, call.userId)),
                  written |-> {UserKey(call.userId, call.count)},
                  call |-> Settled(call, "resolved", sub.value,
                                   "trending_fallback_no_creators", sub.source)]
      [] call.cont = "error" -> ContinueError(call, c, now, sub)
      [] call.cont = "preload" -> AfterPreloadTrending(call, c, now, sub)

(* A call of getTrendingPosts by the code at cont: answered from the cache  *)
(* at once, or suspended on the document store.                             *)
CallTrending(call, cont, c, now) ==
    LET look == CacheLookup(c, now, TrendingKey(call.count), call.count,
                            call.excl, call.skip)
    IN  IF look.served
        THEN Continue([call EXCEPT !.cont = cont], c, now,
                 [status |-> "resolved", value |-> look.value, source |-> look.source])
        ELSE [cache |-> c, written |-> {}, call |-> AwaitTrending(call, cont)]

(* The effect of a step of feed client k with outcome out, s being the     *)
(* service after what the step did to its sessions.  A call that goes on to *)
(* neo4jService.getRecommendedContentCreators enters getSession in the same *)
(* step: initializeDriver is called and its promise awaited.                *)
FeedEffect(k, out, s) ==
    \E o \in {out} :
       /\ cache' = o.cache
       /\ preexisting' = Forget(preexisting, o.written)
       /\ IF o.call.pc = "session"
          THEN /\ s.connectionPromise # Null \/ Len(s.promises) < MaxInits
               /\ \E constructed \in BOOLEAN :
                     /\ neo' = initializeDriver(s, constructed)
                     /\ rcall' = [rcall EXCEPT ![k] =
                             [o.call EXCEPT !.awaits = neo'.connectionPromise]]
          ELSE /\ neo' = s
               /\ rcall' = [rcall EXCEPT ![k] = o.call]
       /\ UNCHANGED <<nodes, follows, callbacks, gcall, clock, docs>>

(* The effect of a step that leaves the sessions as they are. *)
FeedStep(k, out) == FeedEffect(k, out, neo)

----------------------------------------------------------------------------
(* getRecommendedPosts and getTrendingPosts, one action per step.           *)

(* getRecommendedPosts without its if (!userId) block. *)
StartRecommendedUnchecked(k, userId, count, excl, skip) ==
    /\ rcall[k].pc = "idle"
    /\ LET call == [IdleFeed EXCEPT !.fn = "recommended", !.userId = userId,
                        !.count = count, !.excl = excl, !.skip = skip,
                        !.status = "pending"]
           look == CacheLookup(cache, clock, UserKey(userId, count), count, excl, skip)
       IN  FeedStep(k,
             IF look.served
             THEN [cache |-> cache, written |-> {},
                   call |-> Settled(call, "resolved", look.value, look.source, "none")]
             ELSE [cache |-> cache, written |-> {},
                   call |-> [call EXCEPT !.pc = "session"]])

(* getRecommendedPosts(userId, count, excludePostIds, skipNetworkRequests)  *)
(* up to its first await on a store.                                        *)
StartRecommended(k, userId, count, excl, skip) ==
    /\ rcall[k].pc = "idle"
    /\ LET call == [IdleFeed EXCEPT !.fn = "recommended", !.userId = userId,
                        !.count = count, !.excl = excl, !.skip = skip,
                        !.status = "pending"]
           look == CacheLookup(cache, clock, UserKey(userId, count), count, excl, skip)
       IN  FeedStep(k,
             IF userId = NoUser THEN CallTrending(call, "nouser", cache, clock)
             ELSE IF look.served
             THEN [cache |-> cache, written |-> {},
                   call |-> Settled(call, "resolved", look.value, look.source, "none")]
             ELSE [cache |-> cache, written |-> {},
                   call |-> [call EXCEPT !.pc = "session"]])

(* getTrendingPosts(count, excludePostIds, skipNetworkRequests) called by   *)
(* the feed itself.                                                         *)
StartTrending(k, count, excl, skip) ==
    /\ rcall[k].pc = "idle"
    /\ LET call == [IdleFeed EXCEPT !.fn = "trending", !.count = count,
                        !.excl = excl, !.skip = skip, !.status = "pending"]
       IN  FeedStep(k, CallTrending(call, "direct", cache, clock))

PreloadCount == 10

(* preloadCache(userId) up to its first await on a store: nothing without a *)
(* user id; the validity of the two entries for ten posts is read once;     *)
(* getTrendingPosts(10, []) is awaited unless the trending entry was valid, *)
(* then getRecommendedPosts(userId, 10, []) unless the user's was.          *)
StartPreload(k, userId) ==
    /\ rcall[k].pc = "idle"
    /\ LET ukey == UserKey(userId, PreloadCount)
           tkey == TrendingKey(PreloadCount)
           call == [IdleFeed EXCEPT
                      !.fn = "preload", !.userId = userId, !.count = PreloadCount,
                      !.status = "pending",
                      !.hasSocialCache =
                          (ukey \in DOMAIN cache /\ isCacheValid(cache[ukey], clock)),
                      !.hasTrendingCache =
                          (tkey \in DOMAIN cache /\ isCacheValid(cache[tkey], clock))]
       IN  FeedStep(k,
             IF userId = NoUser
             THEN [cache |-> cache, written |-> {},
                   call |-> Settled([IdleFeed EXCEPT !.fn = "preload"], "resolved", <<>>,
                                    "preload", "none")]
             ELSE IF ~call.hasTrendingCache
             THEN CallTrending(call, "preload", cache, clock)
             ELSE IF ~call.hasSocialCache
             THEN EnterRecommended(call, cache, clock)
             ELSE [cache |-> cache, written |-> {},
                   call |-> Settled(call, "resolved", <<>>, "preload", "none")])

(* rankPosts(posts, recommendedCreators) called with the arguments of the   *)
(* call frame: the scored posts, sorted, are its value.                     *)
RankPosts(k) ==
    /\ rcall[k].pc = "ranking"
    /\ FeedStep(k, [cache |-> cache, written |-> {},
                    call |-> [rcall[k] EXCEPT
                                !.pc = "done", !.status = "resolved",
                                !.result = rankPosts(rcall[k].posts, rcall[k].creators,
                                                     clock)]])

(* rankPosts is called again with the same arguments. *)
RankAgain(k) ==
    /\ rcall[k].pc = "done" /\ rcall[k].fn = "rankPosts"
    /\ FeedStep(k, [cache |-> cache, written |-> {},
                    call |-> [rcall[k] EXCEPT !.pc = "ranking", !.status = "pending"]])

(* getSession of getRecommendedContentCreators after the promise it        *)
(* awaited resolved: the session is opened and the creators statement sent. *)
FeedGetSession(k) ==
    /\ rcall[k].pc = "session"
    /\ neo.promises[rcall[k].awaits] = "resolved"
    /\ neo.driver # Null
    /\ rcall' = [rcall EXCEPT ![k].pc = "creatorsQuery", ![k].queries = @ + 1]
    /\ neo' = [neo EXCEPT !.open = @ + 1]
    /\ UNCHANGED <<nodes, follows, callbacks, gcall, cache, clock, docs, preexisting>>

(* getSession throws: getRecommendedContentCreators rejects before its try  *)
(* block, and getRecommendedPosts enters its catch block.                   *)
FeedGetSessionFail(k) ==
    /\ rcall[k].pc = "session"
    /\ \/ neo.promises[rcall[k].awaits] = "rejected"
       \/ neo.promises[rcall[k].awaits] = "resolved" /\ neo.driver = Null
    /\ FeedStep(k, EnterCatch(rcall[k], cache, clock))

(* The graph store runs the creators statement on the graph as it is now;   *)
(* the rows are on their way back.                                          *)
CreatorsQuery(k) ==
    /\ rcall[k].pc = "creatorsQuery"
    /\ \E rows \in getRecommendedContentCreators(nodes, follows, rcall[k].userId,
                                                 CreatorsLimit) :
          rcall' = [rcall EXCEPT ![k].pc = "creatorsClosing", ![k].creators = rows]
    /\ UNCHANGED <<nodes, follows, callbacks, gcall, cache, clock, docs, preexisting, neo>>

(* The creators statement fails: the error leaves the try block through     *)
(* finally { await session.close() }.                                       *)
CreatorsQueryFail(k) ==
    /\ rcall[k].pc = "creatorsQuery"
    /\ rcall' = [rcall EXCEPT ![k].pc = "creatorsClosing", ![k].failed = TRUE]
    /\ UNCHANGED <<nodes, follows, callbacks, gcall, cache, clock, docs, preexisting, neo>>

(* session.close() has resolved and getRecommendedContentCreators settles.  *)
(* Rejected: the catch block of getRecommendedPosts.  With the creators:    *)
(* without any, the trending list is taken and stored under the user's key; *)
(* otherwise the post query is issued.                                      *)
CreatorsReturn(k) ==
    /\ rcall[k].pc = "creatorsClosing"
    /\ FeedEffect(k,
          IF rcall[k].failed
          THEN EnterCatch(rcall[k], cache, clock)
          ELSE IF Len(rcall[k].creators) = 0
          THEN CallTrending(rcall[k], "nocreators", cache, clock)
          ELSE [cache |-> cache, written |-> {},
                call |-> [rcall[k] EXCEPT !.pc = "postsQuery", !.queries = @ + 1]],
          [neo EXCEPT !.open = @ - 1])

(* session.close() rejects: getRecommendedContentCreators rejects whatever  *)
(* its statement gave, and getRecommendedPosts enters its catch block.      *)
CreatorsCloseFail(k) ==
    /\ rcall[k].pc = "creatorsClosing"
    /\ FeedEffect(k, EnterCatch(rcall[k], cache, clock), [neo EXCEPT !.open = @ - 1])

(* The posts of the creators have arrived: they are filtered, ranked, the   *)
(* first MAX_CACHED_POSTS stored, the first count returned.                 *)
PostsQuery(k) ==
    /\ rcall[k].pc = "postsQuery"
    /\ LET call == rcall[k]
           posts == CreatorPosts(docs, call.creators, call.count)
           kept == IF call.excl # {} THEN Exclude(posts, call.excl) ELSE posts
           scored == rankPosts(kept, call.creators, clock)
       IN  FeedStep(k,
             [cache |-> CacheSet(cache, UserKey(call.userId, call.count),
                                 UserEntry(scored, clock, call.userId)),
              written |-> {UserKey(call.userId, call.count)},
              call |-> Settled(call, "resolved", Take(scored, call.count), "fresh",
                               "none")])

(* getDocs rejects in getRecommendedPosts: the catch block. *)
PostsQueryFail(k) ==
    /\ rcall[k].pc = "postsQuery"
    /\ FeedStep(k, EnterCatch(rcall[k], cache, clock))

(* The recent posts have arrived in getTrendingPosts: they are filtered,    *)
(* scored, sorted, the first MAX_CACHED_POSTS stored under the trending     *)
(* key, the first count returned to the code that awaits them.              *)
TrendingQuery(k) ==
    /\ rcall[k].pc = "trendingQuery"
    /\ LET call == rcall[k]
           sorted == TrendingSorted(docs, call.excl, clock)
           c1 == CacheSet(cache, TrendingKey(call.count), TrendingEntry(sorted, clock))
           out == Continue(call, c1, clock,
                     [status |-> "resolved", value |-> Take(sorted, call.count),
                      source |-> "fresh"])
       IN  FeedStep(k, [out EXCEPT !.written = @ \cup {TrendingKey(call.count)}])

(* getDocs rejects in getTrendingPosts: its catch block answers. *)
TrendingQueryFail(k) ==
    /\ rcall[k].pc = "trendingQuery"
    /\ FeedStep(k, Continue(rcall[k], cache, clock, TrendingOnError))

(* The caller has taken the result; the client may issue its next call. *)
FeedReturn(k) ==
    /\ rcall[k].pc = "done"
    /\ rcall' = [rcall EXCEPT ![k] = IdleFeed]
    /\ UNCHANGED <<nodes, follows, callbacks, gcall, cache, clock, docs, preexisting, neo>>

(* Time passes. *)
Tick ==
    /\ \E t \in ClockValues : t > clock /\ clock' = t
    /\ UNCHANGED <<nodes, follows, callbacks, gcall, cache, docs, rcall, preexisting, neo>>

----------------------------------------------------------------------------
(* The other operations of Neo4jService.  Each is                           *)
(*   const session = await this.getSession();                               *)
(*   try { result = await session.run(..); return .. }                      *)
(*   finally { await session.close() }                                      *)
(* pc: session, query (awaiting the statement), closing, done.              *)

(* getFriendsOfFriends: the rows before ORDER BY and LIMIT. *)
FriendsOfFriendsRows(n, f, u) ==
    {[id |-> c, mutualFriends |-> Cardinality(LinkingFriends(n, f, u, c))] :
        c \in {c \in n : Candidate(n, f, u, c) /\ LinkingFriends(n, f, u, c) # {}}}

FofLimit == 10

(* ORDER BY mutualFriends DESC: the lists of all the rows in which no row    *)
(* comes before one of a higher count.  The store chooses the order of rows *)
(* with equal counts: the first row is any of those with the highest count, *)
(* the rest any such list of the other rows.                                *)
RECURSIVE ByCountDesc(_)
ByCountDesc(rows) ==
    IF rows = {} THEN {<<>>}
    ELSE LET top == {r \in rows : \A q \in rows : r.mutualFriends >= q.mutualFriends}
         IN  UNION {{<<r>> \o s : s \in ByCountDesc(rows \ {r})} : r \in top}

(* getFriendsOfFriends without LIMIT 10. *)
getFriendsOfFriendsUnlimited(n, f, u) == ByCountDesc(FriendsOfFriendsRows(n, f, u))

(* getFriendsOfFriends: ORDER BY mutualFriends DESC LIMIT 10: the set of    *)
(* the lists the statement can return.                                      *)
getFriendsOfFriends(n, f, u) ==
    {Take(s, FofLimit) : s \in ByCountDesc(FriendsOfFriendsRows(n, f, u))}

(* getRecommendedUsers: ORDER BY score DESC, id LIMIT $limit. *)
getRecommendedUsers(n, f, u, lim) ==
    OrderedRows({[id |-> r.id, score |-> r.mutualFriends, reason |-> "mutual_friends"] :
                    r \in FriendsOfFriendsRows(n, f, u)}, lim)

(* Array.prototype.slice(skip, skip + lim), as SKIP and LIMIT cut a list. *)
Page(s, skip, lim) == SubSeq(s, skip + 1, Min(skip + lim, Len(s)))

(* getFollowers: one row per relationship into u, ORDER BY r.createdAt DESC *)
(* SKIP $skip LIMIT $limit.  createdAt is not part of the graph here, so    *)
(* the rows come in any order.                                              *)
getFollowers(n, f, u, skip, lim) ==
    LET rels == {r \in RelInstances(f) : r[2] = u /\ r[1] \in n /\ u \in n}
    IN  {Page([i \in 1..Len(s) |-> s[i][1]], skip, lim) : s \in RowOrders(rels)}

(* getFollowing: one row per relationship out of u, likewise. *)
getFollowing(n, f, u, skip, lim) ==
    LET rels == {r \in RelInstances(f) : r[1] = u /\ r[2] \in n /\ u \in n}
    IN  {Page([i \in 1..Len(s) |-> s[i][2]], skip, lim) : s \in RowOrders(rels)}

(* return Infinity *)
Infinity == 1000000

MaxHops == 3

(* The users reached from a by a path of exactly k FOLLOWS relationships. *)
RECURSIVE ReachedIn(_, _, _, _)
ReachedIn(n, f, a, k) ==
    IF k = 0 THEN {a} \cap n
    ELSE {y \in n : \E x \in ReachedIn(n, f, a, k - 1) : isFollowing(n, f, x, y)}

(* shortestPath((a)-[:FOLLOWS*..hops]->(b)): the lengths from k on are      *)
(* tried in turn; no record when none up to hops reaches b.                 *)
RECURSIVE ShortestFrom(_, _, _, _, _, _)
ShortestFrom(n, f, a, b, k, hops) ==
    IF k > hops THEN Infinity
    ELSE IF b \in ReachedIn(n, f, a, k) THEN k
    ELSE ShortestFrom(n, f, a, b, k + 1, hops)

(* getSocialDistance with the path length not limited to three. *)
getSocialDistanceUnlimited(n, f, a, b) ==
    IF a = b THEN 0 ELSE ShortestFrom(n, f, a, b, 1, Cardinality(Users))

(* getSocialDistance: 0 for the same id; else the length of the shortest    *)
(* path of at most three relationships, Infinity without a record.          *)
getSocialDistance(n, f, a, b) ==
    IF a = b THEN 0 ELSE ShortestFrom(n, f, a, b, 1, MaxHops)

(* The values the statement of call can make the operation return on the    *)
(* graph (n, f).                                                            *)
Returned(call, n, f) ==
    CASE call.op = "createUser" -> {<<>>}
      [] call.op = "getFollowersCount" -> {getFollowersCount(n, f, call.a)}
      [] call.op = "getFollowingCount" -> {getFollowingCount(n, f, call.a)}
      [] call.op = "getFollowers" -> getFollowers(n, f, call.a, call.skip, call.lim)
      [] call.op = "getFollowing" -> getFollowing(n, f, call.a, call.skip, call.lim)
      [] call.op = "isFollowing" -> {isFollowing(n, f, call.a, call.b)}
      [] call.op = "isMutualFollow" -> {isMutualFollow(n, f, call.a, call.b)}
      [] call.op = "getFriendsOfFriends" -> getFriendsOfFriends(n, f, call.a)
      [] call.op = "getRecommendedUsers" -> {getRecommendedUsers(n, f, call.a, call.lim)}
      [] call.op = "getRecommendedContentCreators" ->
            getRecommendedContentCreators(n, f, call.a, call.lim)
      [] call.op = "getSocialDistance" -> {getSocialDistance(n, f, call.a, call.b)}

(* The operation is called.  getSocialDistance of a user to itself returns  *)
(* 0 at once; every other call begins with getSession.                      *)
StartRead(p, op, a, b, skip, lim) ==
    LET call == [IdleCall EXCEPT !.op = op, !.a = a, !.b = b, !.skip = skip, !.lim = lim]
    IN  /\ IF op = "getSocialDistance" /\ a = b
           THEN /\ gcall[p].pc = "idle"
                /\ gcall' = [gcall EXCEPT ![p] =
                        [call EXCEPT !.pc = "done",
                                     !.val = getSocialDistance(nodes, follows, a, b)]]
                /\ UNCHANGED neo
           ELSE Begin(p, call)
        /\ UNCHANGED <<nodes, follows, callbacks, cache, clock, docs, rcall, preexisting>>

(* The statement fails, the error leaving the try block without finally. *)
ReadQueryFailUnclosed(p) ==
    /\ gcall[p].pc = "query"
    /\ gcall' = [gcall EXCEPT ![p].pc = "done", ![p].err = TRUE]
    /\ UNCHANGED <<nodes, follows, callbacks, cache, clock, docs, rcall, preexisting, neo>>

(* The statement has run: createUser has merged the node; the value to      *)
(* return is computed from the records.                                     *)
ReadQuery(p) ==
    /\ gcall[p].pc = "query"
    /\ nodes' = IF gcall[p].op = "createUser" THEN nodes \cup {gcall[p].a} ELSE nodes
    /\ \E v \in Returned(gcall[p], nodes, follows) :
          gcall' = [gcall EXCEPT ![p].pc = "closing", ![p].val = v]
    /\ UNCHANGED <<follows, callbacks, cache, clock, docs, rcall, preexisting, neo>>

(* The statement fails: the error propagates through finally. *)
ReadQueryFail(p) ==
    /\ gcall[p].pc = "query"
    /\ gcall' = [gcall EXCEPT ![p].pc = "closing", ![p].err = TRUE]
    /\ UNCHANGED <<nodes, follows, callbacks, cache, clock, docs, rcall, preexisting, neo>>

----------------------------------------------------------------------------
(* The initial state: both service singletons constructed, the engine's     *)
(* callback registered by its constructor, the graph and the cache empty;   *)
(* the constructor of Neo4jService has called initializeDriver.             *)

NoFollows == [p \in Pairs |-> 0]

(* The service after its first initialization succeeded. *)
Connected ==
    [initializeDriver(NewService, TRUE) EXCEPT !.promises = <<"resolved">>]

(* The service whose constructor could not build a driver: neo4j.driver     *)
(* threw, and connectionPromise holds the rejected promise.                 *)
Unavailable == initializeDriver(NewService, FALSE)

Init ==
    /\ nodes = {}
    /\ follows = NoFollows
    /\ callbacks = <<"invalidateUserCache">>
    /\ gcall = [p \in GraphClients |-> IdleCall]
    /\ cache = EmptyCache
    /\ clock = 0
    /\ docs = PostIds
    /\ rcall = [k \in FeedClients |-> IdleFeed]
    /\ preexisting = [p \in GraphClients |-> {}]
    /\ \E constructed \in BOOLEAN : neo = initializeDriver(NewService, constructed)

GraphStep(p, pairs) ==
    \/ \E ab \in pairs : StartFollow(p, ab[1], ab[2])
    \/ \E ab \in pairs : StartUnfollow(p, ab[1], ab[2])
    \/ GetSession(p)
    \/ GetSessionFail(p)
    \/ FollowEnsure(p)
    \/ FollowEnsureFail(p)
    \/ FollowMerge(p)
    \/ FollowMergeFail(p)
    \/ FollowNotify(p)
    \/ UnfollowDelete(p)
    \/ UnfollowDeleteFail(p)
    \/ UnfollowNotify(p)
    \/ CloseSession(p)
    \/ CloseSessionFail(p)
    \/ GraphReturn(p)

FeedStepOf(k, users, counts, excls, skips) ==
    \/ \E u \in users, n \in counts, x \in excls, s \in skips :
          StartRecommended(k, u, n, x, s)
    \/ \E n \in counts, x \in excls, s \in skips : StartTrending(k, n, x, s)
    \/ FeedGetSession(k)
    \/ FeedGetSessionFail(k)
    \/ CreatorsQuery(k)
    \/ CreatorsQueryFail(k)
    \/ CreatorsReturn(k)
    \/ CreatorsCloseFail(k)
    \/ PostsQuery(k)
    \/ PostsQueryFail(k)
    \/ TrendingQuery(k)
    \/ TrendingQueryFail(k)
    \/ FeedReturn(k)

(* The social graph service with its clients and subscribers: two users,    *)
(* every ordered pair of them, self-follow included.                        *)
GraphUsers == {"u1", "u2"}

NextGraph ==
    \/ \E p \in GraphClients : GraphStep(p, GraphUsers \X GraphUsers)
    \/ Register
    \/ VerifyOk
    \/ VerifyFail

SpecGraph == Init /\ [][NextGraph]_vars

(* The recommendation engine with its clients over a graph that does not    *)
(* change: the empty graph, or u1 -> u2 -> u3 (u3 is a creator for u1).     *)
ChainFollows == [p \in Pairs |-> IF p \in {<<"u1", "u2">>, <<"u2", "u3">>} THEN 1 ELSE 0]

FeedUsers == {NoUser, "u1"}
FeedCounts == {3}

InitFeed ==
    /\ \/ nodes = {} /\ follows = NoFollows
       \/ nodes = {"u1", "u2", "u3"} /\ follows = ChainFollows
    /\ callbacks = <<"invalidateUserCache">>
    /\ gcall = [p \in GraphClients |-> IdleCall]
    /\ cache = EmptyCache
    /\ clock = 0
    /\ docs \in {{}, {"p1"}, PostIds}
    /\ rcall = [k \in FeedClients |-> IdleFeed]
    /\ preexisting = [p \in GraphClients |-> {}]
    /\ neo \in {Connected, Unavailable}

NextFeed ==
    \/ \E k \in FeedClients : FeedStepOf(k, FeedUsers, FeedCounts, ExcludeChoices, BOOLEAN)
    \/ Tick

SpecFeed == InitFeed /\ [][NextFeed]_vars

(* Two callers of getRecommendedPosts("u1", 3, excludePostIds) at the same  *)
(* time, over the empty graph or the chain, with the three posts stored.    *)
NumRaceClients == 2
RaceClients == 1..NumRaceClients
RaceExcludes == {{}, {"p1"}}

InitRace ==
    /\ \/ nodes = {} /\ follows = NoFollows
       \/ nodes = {"u1", "u2", "u3"} /\ follows = ChainFollows
    /\ callbacks = <<"invalidateUserCache">>
    /\ gcall = [p \in GraphClients |-> IdleCall]
    /\ cache = EmptyCache
    /\ clock = 0
    /\ docs = PostIds
    /\ rcall = [k \in RaceClients |-> IdleFeed]
    /\ preexisting = [p \in GraphClients |-> {}]
    /\ neo \in {Connected, Unavailable}

NextRace ==
    \/ \E k \in RaceClients, x \in RaceExcludes : StartRecommended(k, "u1", 3, x, FALSE)
    \/ \E k \in RaceClients : FeedGetSession(k)
    \/ \E k \in RaceClients : FeedGetSessionFail(k)
    \/ \E k \in RaceClients : CreatorsQuery(k)
    \/ \E k \in RaceClients : CreatorsQueryFail(k)
    \/ \E k \in RaceClients : CreatorsReturn(k)
    \/ \E k \in RaceClients : CreatorsCloseFail(k)
    \/ \E k \in RaceClients : PostsQuery(k)
    \/ \E k \in RaceClients : PostsQueryFail(k)
    \/ \E k \in RaceClients : TrendingQuery(k)
    \/ \E k \in RaceClients : TrendingQueryFail(k)
    \/ \E k \in RaceClients : FeedReturn(k)
    \/ Tick

SpecRace == InitRace /\ [][NextRace]_vars

(* The service closed at any moment while its two clients follow and        *)
(* unfollow u1 -> u2.                                                       *)
NextClose ==
    \/ \E p \in GraphClients : GraphStep(p, {<<"u1", "u2">>})
    \/ VerifyOk
    \/ VerifyFail
    \/ CloseBegin
    \/ CloseEnd
    \/ CloseEndFail

SpecClose == Init /\ [][NextClose]_vars

(* rankPosts on its own: every list without repetition of the four posts,  *)
(* creator lists without the authors, with them, with a creator twice, with *)
(* scores that outweigh the recency term and with scores that it outweighs, *)
(* at every time of the clock.                                              *)
RankIds == PostIds \cup {"p4"}

RankLists ==
    UNION {{s \in [1..n -> RankIds] : \A i, j \in 1..n : i # j => s[i] # s[j]} :
                n \in 0..Cardinality(RankIds)}

CreatorRow(id, score, reason) == [id |-> id, score |-> score, reason |-> reason]

RankCreators ==
    {<<>>,
     <<CreatorRow("u3", 2, "followed_by_friends")>>,
     <<CreatorRow("u2", 1, "followed_by_friends"), CreatorRow("u3", 1, "popular_in_network")>>,
     <<CreatorRow("u3", 1, "followed_by_friends"), CreatorRow("u4", 11, "popular_in_network")>>,
     <<CreatorRow("u4", 11, "followed_by_friends"), CreatorRow("u4", 1, "popular_in_network")>>,
     <<CreatorRow("u2", 8, "followed_by_friends"), CreatorRow("u3", 1, "popular_in_network")>>}

InitRank ==
    /\ nodes = {} /\ follows = NoFollows
    /\ callbacks = <<"invalidateUserCache">>
    /\ gcall = [p \in GraphClients |-> IdleCall]
    /\ cache = EmptyCache
    /\ clock \in ClockValues
    /\ docs = RankIds
    /\ \E posts \in RankLists, creators \in RankCreators :
          /\ rcall = [k \in FeedClients |->
                        [IdleFeed EXCEPT !.fn = "rankPosts", !.pc = "ranking",
                                         !.status = "pending",
                                         !.posts = posts, !.creators = creators]]
    /\ preexisting = [p \in GraphClients |-> {}]
    /\ neo = Connected

NextRank ==
    \/ \E k \in FeedClients : RankPosts(k)
    \/ \E k \in FeedClients : RankAgain(k)

SpecRank == InitRank /\ [][NextRank]_vars

(* preloadCache for u1 and for no user, between calls for ten posts of the  *)
(* feed of u1 and of the trending feed, while time passes.                  *)
NextPreload ==
    \/ \E k \in FeedClients : \E u \in FeedUsers : StartPreload(k, u)
    \/ \E k \in FeedClients : FeedStepOf(k, {"u1"}, {PreloadCount}, {{}}, {FALSE})
    \/ Tick

SpecPreload == InitFeed /\ [][NextPreload]_vars

(* The two services together: one graph client following and unfollowing    *)
(* along u1 -> u2 -> u3, feed clients asking for two posts of the feeds of  *)
(* u1 and u2.                                                               *)
FollowPairs == {<<"u1", "u2">>, <<"u2", "u3">>}
PageCounts == {2}

Next ==
    \/ GraphStep(1, FollowPairs)
    \/ VerifyOk
    \/ VerifyFail
    \/ \E k \in FeedClients : FeedStepOf(k, {"u1", "u2"}, PageCounts, {{}}, {FALSE})

Spec == Init /\ [][Next]_vars

(* follow and unfollow along u1 -> u2 -> u3 over a cache that holds any of  *)
(* six entries: of u1 for two counts, of u2, of u3, and the trending        *)
(* entries for two counts.                                                  *)
CachedKeys ==
    {UserKey("u1", 2), UserKey("u1", 3), UserKey("u2", 3), UserKey("u3", 2),
     TrendingKey(2), TrendingKey(3)}

CachedEntry(key) ==
    IF key = TrendingKey(2) \/ key = TrendingKey(3)
    THEN TrendingEntry(<<"p1">>, 0)
    ELSE UserEntry(<<"p2">>, 0,
                   CHOOSE u \in Users : key = UserKey(u, 2) \/ key = UserKey(u, 3))

InitInvalidate ==
    /\ nodes = {}
    /\ follows = NoFollows
    /\ callbacks = <<"invalidateUserCache">>
    /\ gcall = [p \in GraphClients |-> IdleCall]
    /\ \E keys \in SUBSET CachedKeys : cache = [k \in keys |-> CachedEntry(k)]
    /\ clock = 0
    /\ docs = PostIds
    /\ rcall = [k \in FeedClients |-> IdleFeed]
    /\ preexisting = [p \in GraphClients |-> {}]
    /\ \E constructed \in BOOLEAN : neo = initializeDriver(NewService, constructed)

NextInvalidate ==
    \/ GraphStep(1, FollowPairs)
    \/ VerifyOk
    \/ VerifyFail

SpecInvalidate == InitInvalidate /\ [][NextInvalidate]_vars

(* The read operations of the graph service, with follow and unfollow of    *)
(* u1 -> u2, over the graphs made of any of nine relationships among five  *)
(* users, and over the empty store.                                         *)
QueryEdges ==
    {<<"u1", "u1">>, <<"u1", "u2">>, <<"u1", "u3">>, <<"u2", "u1">>, <<"u2", "u3">>,
     <<"u2", "u4">>, <<"u3", "u4">>, <<"u3", "u5">>, <<"u4", "u5">>}

ReadCall(op, a, b, skip, lim) == [op |-> op, a |-> a, b |-> b, skip |-> skip, lim |-> lim]

QueryCalls ==
    {ReadCall(op, "u1", NoUser, 0, 0) :
        op \in {"createUser", "getFollowersCount", "getFollowingCount",
                "getFriendsOfFriends"}}
    \cup {ReadCall("getSocialDistance", "u1", b, 0, 0) : b \in Users}
    \cup {ReadCall(op, "u1", "u2", 0, 0) : op \in {"isFollowing", "isMutualFollow"}}
    \cup {ReadCall("getFollowing", "u1", NoUser, skip, 1) : skip \in {0, 1}}
    \cup {ReadCall("getFollowers", "u4", NoUser, 0, 10)}
    \cup {ReadCall(op, "u1", NoUser, 0, lim) :
            op \in {"getRecommendedUsers", "getRecommendedContentCreators"},
            lim \in {1, 10}}

ReadStep(p, calls) ==
    \/ \E c \in calls : StartRead(p, c.op, c.a, c.b, c.skip, c.lim)
    \/ ReadQuery(p)
    \/ ReadQueryFail(p)

InitQuery ==
    /\ \/ nodes = {} /\ follows = NoFollows
       \/ /\ nodes = Users
          /\ \E S \in SUBSET QueryEdges :
                follows = [p \in Pairs |-> IF p \in S THEN 1 ELSE 0]
    /\ callbacks = <<"invalidateUserCache">>
    /\ gcall = [p \in GraphClients |-> IdleCall]
    /\ cache = EmptyCache
    /\ clock = 0
    /\ docs = PostIds
    /\ rcall = [k \in FeedClients |-> IdleFeed]
    /\ preexisting = [p \in GraphClients |-> {}]
    /\ \E constructed \in BOOLEAN : neo = initializeDriver(NewService, constructed)

NextQuery ==
    \/ ReadStep(1, QueryCalls)
    \/ GraphStep(1, {<<"u1", "u2">>})
    \/ VerifyOk
    \/ VerifyFail

SpecQuery == InitQuery /\ [][NextQuery]_vars

(* getFriendsOfFriends over the same graphs and over one of sixteen users   *)
(* in which more than ten users qualify: u1 follows itself and u2 .. u5, u2 *)
(* follows u1 and u3, and the k-th of the other users is followed by the    *)
(* first Fans[k] of u2 .. u5, so that the counts 4, 3, 2 and 1 occur, each  *)
(* more than once.                                                          *)
CrowdUsers ==
    Users \cup {"u6", "u7", "u8", "u9", "u10", "u11", "u12", "u13", "u14", "u15", "u16"}

CrowdFollows ==
    LET Friends == <<"u2", "u3", "u4", "u5">>
        Others == <<"u6", "u7", "u8", "u9", "u10", "u11", "u12", "u13", "u14", "u15", "u16">>
        Fans == <<4, 4, 3, 3, 3, 2, 2, 2, 1, 1, 1>>
        Edges ==
            {<<"u1", "u1">>, <<"u2", "u1">>, <<"u2", "u3">>}
            \cup {<<"u1", Friends[i]>> : i \in 1..Len(Friends)}
            \cup {<<Friends[ik[1]], Others[ik[2]]>> :
                    ik \in {ik \in (1..Len(Friends)) \X (1..Len(Others)) :
                               ik[1] <= Fans[ik[2]]}}
    IN  [p \in CrowdUsers \X CrowdUsers |-> IF p \in Edges THEN 1 ELSE 0]

InitFof ==
    /\ \/ nodes = {} /\ follows = NoFollows
       \/ /\ nodes = Users
          /\ \E S \in SUBSET QueryEdges :
                follows = [p \in Pairs |-> IF p \in S THEN 1 ELSE 0]
       \/ nodes = CrowdUsers /\ follows = CrowdFollows
    /\ callbacks = <<"invalidateUserCache">>
    /\ gcall = [p \in GraphClients |-> IdleCall]
    /\ cache = EmptyCache
    /\ clock = 0
    /\ docs = PostIds
    /\ rcall = [k \in FeedClients |-> IdleFeed]
    /\ preexisting = [p \in GraphClients |-> {}]
    /\ \E constructed \in BOOLEAN : neo = initializeDriver(NewService, constructed)

NextFof ==
    \/ ReadStep(1, {ReadCall("getFriendsOfFriends", u, NoUser, 0, 0) : u \in {"u1", "u2"}})
    \/ GraphStep(1, {<<"u1", "u2">>})
    \/ VerifyOk
    \/ VerifyFail

SpecFof == InitFof /\ [][NextFof]_vars

----------------------------------------------------------------------------
(* Properties of the social graph service and of cache invalidation.        *)

(* log holds, for each of the first n callbacks in registration order, one  *)
(* invocation with a followed by one invocation with b, and nothing else.   *)
LoggedOnceEach(log, a, b, n) ==
    /\ Len(log) = 2 * n
    /\ \A i \in 1..n : log[2 * i - 1] = <<i, a>> /\ log[2 * i] = <<i, b>>

(* The entries a graph call found in the cache when it began and that are   *)
(* still there, owned by one of the two users of the call.                  *)
SurvivingEntries(p) ==
    {k \in preexisting[p] \cap DOMAIN cache :
        cache[k].userId \in {gcall[p].a, gcall[p].b}}

(* C1: after follow(a,b) has completed successfully, no cache entry that    *)
(* existed before the call and is owned by a or by b is still in the cache, *)
(* so a lookup for a or for b does not find it.                             *)
C1_FollowPurgesBoth ==
    \A p \in GraphClients :
        (gcall[p].op = "follow" /\ gcall[p].pc = "done" /\ ~gcall[p].err)
            => SurvivingEntries(p) = {}

(* A follow(a,b) has completed and evicted an entry of a and an entry of b. *)
C1_Witness ==
    \E p \in GraphClients, n \in PageCounts :
        /\ gcall[p].op = "follow" /\ gcall[p].pc = "done" /\ ~gcall[p].err
        /\ gcall[p].a # gcall[p].b
        /\ {UserKey(gcall[p].a, n), UserKey(gcall[p].b, n)} \subseteq gcall[p].evicted

(* C6: a follow(a,b) whose merge statement succeeded invokes, in the one    *)
(* step that follows the arrival of the result and so before it returns,    *)
(* every callback registered so far once with a and once with b; it has     *)
(* invoked none before that step and invokes none after it; a follow one of *)
(* whose statements failed, or that got no session, invokes none.           *)
C6_FollowNotifiesOnceEach ==
    /\ [](\A p \in GraphClients : gcall[p].op = "follow" =>
            /\ gcall[p].pc \in {"session", "ensure", "merge", "merged"}
                  => gcall[p].log = <<>>
            /\ (gcall[p].pc \in {"closing", "done"} /\ ~gcall[p].err)
                  => \E n \in 1..Len(callbacks) :
                        LoggedOnceEach(gcall[p].log, gcall[p].a, gcall[p].b, n))
    /\ [][\A p \in GraphClients : gcall[p].op = "follow" =>
            /\ (gcall[p].pc = "merged" /\ gcall'[p].pc # "merged")
                  => /\ gcall'[p].pc = "closing" /\ ~gcall'[p].err
                     /\ LoggedOnceEach(gcall'[p].log, gcall[p].a, gcall[p].b,
                                       Len(callbacks))
            /\ (gcall[p].pc \in {"session", "ensure", "merge"}
                    /\ gcall'[p].pc \in {"closing", "done"})
                  => gcall'[p].err /\ gcall'[p].log = <<>>
            /\ (gcall[p].pc = "closing" /\ gcall'[p].pc = "done")
                  => gcall'[p].log = gcall[p].log]_vars

(* A follow of another user has returned after notifying two callbacks. *)
C6_Witness ==
    \E p \in GraphClients :
        /\ gcall[p].op = "follow" /\ gcall[p].pc = "done" /\ ~gcall[p].err
        /\ gcall[p].a # gcall[p].b
        /\ gcall[p].log = <<<<1, gcall[p].a>>, <<1, gcall[p].b>>,
                            <<2, gcall[p].a>>, <<2, gcall[p].b>>>>

(* C7: an unfollow(a,b) whose delete statement succeeded has invoked every  *)
(* registered callback for a and for b, whatever it returns, and no cache   *)
(* entry of a or b that existed before the call is left: also when no edge  *)
(* was there to remove.                                                     *)
C7_UnfollowAlwaysPurges ==
    \A p \in GraphClients :
        (gcall[p].op = "unfollow" /\ gcall[p].pc \in {"closing", "done"} /\ ~gcall[p].err)
            => /\ \E n \in 1..Len(callbacks) :
                     LoggedOnceEach(gcall[p].log, gcall[p].a, gcall[p].b, n)
               /\ SurvivingEntries(p) = {}

(* An unfollow that removed nothing has returned false and evicted an entry. *)
C7_Witness ==
    \E p \in GraphClients :
        /\ gcall[p].op = "unfollow" /\ gcall[p].pc = "done" /\ ~gcall[p].err
        /\ ~gcall[p].ret
        /\ gcall[p].log # <<>>
        /\ gcall[p].evicted # {}

(* C8: the step in which the store runs the delete statement of            *)
(* unfollow(a,b) gives a record exactly when an edge a->b existed, and then *)
(* this step removed it; in both cases isFollowing(a,b) is false after the  *)
(* step; the continuation computes the return value true exactly when there *)
(* was a record, false without an error when there was none; and that value *)
(* is what the call returns when its session closes.                        *)
C8_UnfollowReturn ==
    [][\A p \in GraphClients :
          LET a == gcall[p].a
              b == gcall[p].b
          IN  /\ (gcall[p].op = "unfollow" /\ gcall[p].pc = "delete"
                    /\ gcall'[p].pc = "deleted")
                  => /\ (gcall'[p].records > 0) = isFollowing(nodes, follows, a, b)
                     /\ (gcall'[p].records > 0) = (follows'[<<a, b>>] < follows[<<a, b>>])
                     /\ ~isFollowing(nodes', follows', a, b)
              /\ (gcall[p].op = "unfollow" /\ gcall[p].pc = "deleted"
                    /\ gcall'[p].pc # "deleted")
                  => /\ gcall'[p].pc = "closing" /\ ~gcall'[p].err
                     /\ gcall'[p].ret = (gcall[p].records > 0)
              /\ (gcall[p].op = "unfollow" /\ gcall[p].pc = "closing"
                    /\ gcall'[p].pc = "done" /\ gcall'[p].err = gcall[p].err)
                  => gcall'[p].ret = gcall[p].ret]_vars

(* Two unfollows of one edge have returned: one true, the other false. *)
C8_Witness ==
    \E p, q \in GraphClients :
        /\ gcall[p].op = "unfollow" /\ gcall[p].pc = "done" /\ ~gcall[p].err
        /\ gcall[q].op = "unfollow" /\ gcall[q].pc = "done" /\ ~gcall[q].err
        /\ gcall[p].a = gcall[q].a /\ gcall[p].b = gcall[q].b
        /\ gcall[p].ret /\ ~gcall[q].ret
        /\ ~isFollowing(nodes, follows, gcall[p].a, gcall[p].b)

(* The users the clients of the graph service name, and one that none of    *)
(* them names, who never has a node.                                        *)
Observed == GraphUsers \cup {"u3"}

(* C9: in every reachable graph each ordered pair of users has at most one  *)
(* FOLLOWS edge, and the follower and following counts of a user are the    *)
(* numbers of distinct users following and followed; a follow(a,b) whose    *)
(* merge succeeds leaves exactly one edge a->b, also when one was there.    *)
C9_OneEdgePerPair ==
    /\ [](/\ \A ab \in Pairs : follows[ab] <= 1
          /\ \A u \in Observed :
                /\ getFollowersCount(nodes, follows, u)
                      = Cardinality({x \in Users : isFollowing(nodes, follows, x, u)})
                /\ getFollowingCount(nodes, follows, u)
                      = Cardinality({y \in Users : isFollowing(nodes, follows, u, y)}))
    /\ [][\A p \in GraphClients : gcall[p].op = "follow" =>
            /\ (gcall[p].pc = "merge" /\ gcall'[p].pc = "merged")
                  => /\ follows'[<<gcall[p].a, gcall[p].b>>] = 1
                     /\ gcall'[p].records = 1
            /\ (gcall[p].pc = "merged" /\ gcall'[p].pc = "closing")
                  => gcall'[p].ret]_vars

(* Two follows of the same pair have both returned true; there is one edge, *)
(* counted once on either side.                                             *)
C9_Witness ==
    \E p, q \in GraphClients :
        /\ p # q
        /\ gcall[p].op = "follow" /\ gcall[p].pc = "done" /\ gcall[p].ret
        /\ gcall[q].op = "follow" /\ gcall[q].pc = "done" /\ gcall[q].ret
        /\ gcall[p].a = gcall[q].a /\ gcall[p].b = gcall[q].b
        /\ gcall[p].a # gcall[p].b
        /\ follows[<<gcall[p].a, gcall[p].b>>] = 1
        /\ getFollowersCount(nodes, follows, gcall[p].b) = 1
        /\ getFollowingCount(nodes, follows, gcall[p].a) = 1

(* C10: in every reachable graph isMutualFollow(a,b) is isFollowing(a,b)    *)
(* and isFollowing(b,a), for all users, existing or not, equal or not; and  *)
(* a step changes isFollowing(x,y) only as the merge of a follow(x,y) or    *)
(* the delete of an unfollow(x,y).                                          *)
C10_MutualIsBothWays ==
    /\ [](\A a, b \in Observed :
            isMutualFollow(nodes, follows, a, b)
                <=> (isFollowing(nodes, follows, a, b) /\ isFollowing(nodes, follows, b, a)))
    /\ [][\A x, y \in Observed :
            (isFollowing(nodes', follows', x, y) # isFollowing(nodes, follows, x, y))
              => \E p \in GraphClients :
                    /\ gcall[p].a = x /\ gcall[p].b = y
                    /\ gcall[p].pc \in {"merge", "delete"}
                    /\ gcall'[p].pc \in {"merged", "deleted"}
                    /\ isFollowing(nodes', follows', x, y) = (gcall[p].op = "follow")]_vars

(* u1 follows itself and u2, u2 does not follow back, u3 has no node. *)
C10_Witness ==
    /\ isMutualFollow(nodes, follows, "u1", "u1")
    /\ isFollowing(nodes, follows, "u1", "u2")
    /\ ~isFollowing(nodes, follows, "u2", "u1")
    /\ ~isMutualFollow(nodes, follows, "u1", "u2")
    /\ "u3" \notin nodes
    /\ ~isMutualFollow(nodes, follows, "u1", "u3")

----------------------------------------------------------------------------
(* Properties of the recommendation engine.                                 *)

(* The key a call reads first: the user's, or the trending key when the     *)
(* call is getTrendingPosts or has no user.                                 *)
FirstKey(call) ==
    IF call.fn = "recommended" /\ call.userId # NoUser
    THEN UserKey(call.userId, call.count)
    ELSE TrendingKey(call.count)

CacheSources == {"cache", "cache_filtered", "cache_strict_mode"}

(* C2: a getRecommendedPosts(u, count, []) that found no creators returns   *)
(* the list of getTrendingPosts(count, []), non-empty when posts exist and  *)
(* the document store answered; at its completion the user's key holds a    *)
(* valid entry with that list and, the document store having answered, so   *)
(* does the trending key; an identical call then is answered from the cache *)
(* with the same list.                                                      *)
C2_NoCreatorsGivesTrending ==
    [][\A k \in FeedClients :
          LET call == rcall'[k]
              ukey == UserKey(call.userId, call.count)
              tkey == TrendingKey(call.count)
              answered == call.via # "error"
          IN  (rcall[k].pc # "done" /\ call.pc = "done"
                 /\ call.source = "trending_fallback_no_creators"
                 /\ call.excl = {} /\ ~call.skip)
              => /\ call.status = "resolved"
                 /\ (answered /\ docs # {}) => call.result # <<>>
                 /\ ukey \in DOMAIN cache'
                 /\ clock' - cache'[ukey].timestamp < CACHE_TTL
                 /\ cache'[ukey].data = call.result
                 /\ answered =>
                       /\ tkey \in DOMAIN cache'
                       /\ clock' - cache'[tkey].timestamp < CACHE_TTL
                       /\ Take(cache'[tkey].data, call.count) = call.result
                 /\ CacheLookup(cache', clock', ukey, call.count, {}, call.skip)
                       = [served |-> TRUE, value |-> call.result, source |-> "cache"]]_vars

(* C3: a getRecommendedPosts with exclusions (skipNetworkRequests false)    *)
(* that finds a valid entry under its key returns at once the first count   *)
(* posts of the entry's list without the excluded ones when at least        *)
(* count/2 posts are left; otherwise it goes on to the creators query as it *)
(* does on a cache miss, awaiting the driver for a session, and returns     *)
(* nothing from the cache.                                                  *)
C3_FilteredHitNeedsHalf ==
    [][\A k \in FeedClients :
          LET call == rcall'[k]
              key == UserKey(call.userId, call.count)
          IN  (rcall[k].pc = "idle" /\ call.fn = "recommended" /\ call.userId # NoUser
                 /\ call.excl # {} /\ ~call.skip
                 /\ key \in DOMAIN cache /\ clock - cache[key].timestamp < CACHE_TTL)
              => LET left == Exclude(cache[key].data, call.excl)
                 IN  /\ cache' = cache
                     /\ IF 2 * Len(left) >= call.count
                        THEN /\ call.pc = "done" /\ call.status = "resolved"
                             /\ call.result = Take(left, call.count)
                             /\ call.queries = 0
                        ELSE call = [IdleFeed EXCEPT
                                        !.fn = "recommended", !.userId = call.userId,
                                        !.count = call.count, !.excl = call.excl,
                                        !.status = "pending", !.pc = "session",
                                        !.awaits = neo'.connectionPromise]]_vars

(* A call asking for three posts recomputes although its valid entry has    *)
(* one post left after the exclusions.                                      *)
C3_Witness ==
    \E k \in FeedClients :
        LET call == rcall[k]
            key == UserKey(call.userId, call.count)
        IN  /\ call.fn = "recommended" /\ call.pc = "session"
            /\ call.excl # {} /\ ~call.skip /\ call.count = 3
            /\ key \in DOMAIN cache /\ isCacheValid(cache[key], clock)
            /\ Len(Exclude(cache[key].data, call.excl)) = 1

(* C4: a read is answered from an entry only if the entry is younger than   *)
(* CACHE_TTL; a read without exclusions of an entry younger than CACHE_TTL  *)
(* is answered from it; a read (skipNetworkRequests false) that finds no    *)
(* entry younger than CACHE_TTL, an entry of exactly that age included,     *)
(* goes on to its query, still pending: getRecommendedPosts awaits the      *)
(* session of its creators query, getTrendingPosts has sent its own.        *)
C4_TimeToLive ==
    [][\A k \in FeedClients :
          LET call == rcall'[k]
              key == FirstKey(call)
              young == key \in DOMAIN cache /\ clock - cache[key].timestamp < CACHE_TTL
              fromCache == call.pc = "done"
                              /\ (call.source \in CacheSources \/ call.via \in CacheSources)
          IN  (rcall[k].pc = "idle" /\ call.pc # "idle")
              => /\ fromCache => young
                 /\ (young /\ call.excl = {})
                       => /\ fromCache
                          /\ call.result = Take(cache[key].data, call.count)
                          /\ call.queries = 0
                 /\ (~young /\ ~call.skip)
                       => /\ call.pc \in {"session", "trendingQuery"}
                          /\ call.status = "pending"
                          /\ call.queries = IF call.pc = "session" THEN 0 ELSE 1]_vars

(* A read that found its entry exactly CACHE_TTL old is recomputing. *)
C4_Witness ==
    \E k \in FeedClients :
        LET call == rcall[k]
            key == FirstKey(call)
        IN  /\ call.pc \in {"session", "trendingQuery"}
            /\ call.excl = {}
            /\ key \in DOMAIN cache
            /\ clock - cache[key].timestamp = CACHE_TTL

(* C5: no call of getRecommendedPosts or getTrendingPosts is ever rejected; *)
(* a completed call has resolved with a list of posts, which is the empty   *)
(* list when the trending query it fell back to failed.                     *)
C5_NeverRejects ==
    \A k \in FeedClients :
        /\ rcall[k].status # "rejected"
        /\ rcall[k].pc = "done" =>
              /\ rcall[k].status = "resolved"
              /\ SeqRange(rcall[k].result) \subseteq docs
              /\ rcall[k].via = "error" => rcall[k].result = <<>>

(* The posts query failed, then the trending query: the call has resolved   *)
(* with the empty list although posts exist.                                *)
C5_Witness ==
    \E k \in FeedClients :
        /\ rcall[k].fn = "recommended" /\ rcall[k].pc = "done"
        /\ rcall[k].creators # <<>>
        /\ rcall[k].source = "error_fallback" /\ rcall[k].via = "error"
        /\ rcall[k].status = "resolved" /\ rcall[k].result = <<>>
        /\ docs # {}

----------------------------------------------------------------------------
(* Properties of the read operations of the graph service.                  *)

(* The statement of client 1's call of op has just returned its records. *)
Answered(op) ==
    /\ gcall[1].op = op /\ gcall[1].pc = "query"
    /\ gcall'[1].pc = "closing" /\ ~gcall'[1].err

(* The users u follows that follow c. *)
Intermediaries(u, c) ==
    {x \in nodes : isFollowing(nodes, follows, u, x) /\ isFollowing(nodes, follows, x, c)}

(* The users a row of getFriendsOfFriends(u) can name. *)
Qualifying(u) ==
    {c \in nodes : c # u /\ ~isFollowing(nodes, follows, u, c) /\ Intermediaries(u, c) # {}}

(* C11: every row of getFriendsOfFriends(u) names a user other than u that  *)
(* u does not follow and that at least one user followed by u follows; its  *)
(* count is the number of those intermediaries; no user is named twice; at  *)
(* most 10 rows come back, in non-increasing order of count: all the users  *)
(* that qualify when they are 10 or fewer, else 10 of them, none left out   *)
(* having a higher count than a row returned.                               *)
C11_FriendsOfFriends ==
    [][Answered("getFriendsOfFriends") =>
        LET u == gcall[1].a
            res == gcall'[1].val
            ids == {res[i].id : i \in 1..Len(res)}
        IN  /\ Len(res) <= 10
            /\ Len(res) = Min(10, Cardinality(Qualifying(u)))
            /\ Cardinality(ids) = Len(res)
            /\ \A i \in 1..Len(res) :
                  /\ res[i].id # u
                  /\ ~isFollowing(nodes, follows, u, res[i].id)
                  /\ Intermediaries(u, res[i].id) # {}
                  /\ res[i].mutualFriends = Cardinality(Intermediaries(u, res[i].id))
            /\ \A i \in 1..(Len(res) - 1) :
                  res[i].mutualFriends >= res[i + 1].mutualFriends
            /\ \A c \in Qualifying(u) \ ids : \A i \in 1..Len(res) :
                  Cardinality(Intermediaries(u, c)) <= res[i].mutualFriends]_vars

(* u1 follows itself, u2 (which follows back) and three more; eleven users  *)
(* qualify, with counts from 4 to 1: ten rows have come back, those of      *)
(* count 4 first, and u16, of count 1, is left out.                         *)
C11_Witness ==
    /\ gcall[1].op = "getFriendsOfFriends" /\ gcall[1].a = "u1"
    /\ gcall[1].pc = "closing" /\ ~gcall[1].err
    /\ isFollowing(nodes, follows, "u1", "u1")
    /\ isMutualFollow(nodes, follows, "u1", "u2")
    /\ Cardinality(Qualifying("u1")) = 11
    /\ Len(gcall[1].val) = 10
    /\ gcall[1].val[1] = [id |-> "u7", mutualFriends |-> 4]
    /\ gcall[1].val[2] = [id |-> "u6", mutualFriends |-> 4]
    /\ gcall[1].val[10].mutualFriends = 1
    /\ \A i \in 1..10 : gcall[1].val[i].id # "u16"

(* A directed path of exactly k FOLLOWS relationships leads from a to b. *)
PathOfLength(a, b, k) ==
    \E s \in [0..k -> Users] :
        /\ s[0] = a /\ s[k] = b
        /\ \A i \in 0..(k - 1) : isFollowing(nodes, follows, s[i], s[i + 1])

(* C12: getSocialDistance(a, a) returns 0 in the step of the call, with no  *)
(* session acquired and no statement run; for a # b the value is the length *)
(* 1, 2 or 3 of the shortest directed path from a to b (1 when a follows    *)
(* b), and Infinity when no path of at most three relationships exists.     *)
C12_SocialDistance ==
    [][/\ (/\ gcall[1].pc = "idle" /\ gcall'[1].pc # "idle"
           /\ gcall'[1].op = "getSocialDistance" /\ gcall'[1].a = gcall'[1].b)
          => /\ gcall'[1].pc = "done" /\ gcall'[1].val = 0 /\ ~gcall'[1].err
             /\ neo' = neo
       /\ Answered("getSocialDistance")
          => LET a == gcall[1].a
                 b == gcall[1].b
                 d == gcall'[1].val
             IN  /\ a # b
                 /\ d \in {1, 2, 3, Infinity}
                 /\ \A k \in 1..3 :
                       d = k <=> /\ PathOfLength(a, b, k)
                                 /\ \A j \in 1..(k - 1) : ~PathOfLength(a, b, j)
                 /\ d = Infinity <=> \A k \in 1..3 : ~PathOfLength(a, b, k)
                 /\ isFollowing(nodes, follows, a, b) => d = 1]_vars

(* u1 follows u3, and also reaches it in two and in three steps: the value *)
(* is 1.                                                                    *)
C12_Witness ==
    /\ gcall[1].op = "getSocialDistance" /\ gcall[1].pc = "closing" /\ ~gcall[1].err
    /\ gcall[1].a = "u1" /\ gcall[1].b = "u3"
    /\ isFollowing(nodes, follows, "u1", "u3")
    /\ PathOfLength("u1", "u3", 2)
    /\ PathOfLength("u1", "u3", 3)
    /\ gcall[1].val = 1

(* The calls that hold a session: past getSession, not yet past close. *)
HoldingSession ==
    {p \in GraphClients :
        gcall[p].pc \in {"ensure", "merge", "merged", "delete", "deleted", "query", "closing"}}

(* The feed calls whose getRecommendedContentCreators holds a session. *)
FeedHoldingSession ==
    {k \in FeedClients : rcall[k].pc \in {"creatorsQuery", "creatorsClosing"}}

(* C13: the sessions open are exactly those of the operations between their *)
(* getSession and their finally block, whether the statement succeeded or   *)
(* threw; when every operation started has completed, none is open.         *)
C13_SessionsClosed ==
    /\ neo.open = Cardinality(HoldingSession) + Cardinality(FeedHoldingSession)
    /\ (/\ \A p \in GraphClients : gcall[p].pc \in {"idle", "done"}
        /\ \A k \in FeedClients : rcall[k].pc \in {"idle", "done"}) => neo.open = 0

(* getRecommendedContentCreators got its session, its statement threw, and  *)
(* the call has rejected with no session left open.                         *)
C13_Witness ==
    /\ gcall[1].op = "getRecommendedContentCreators"
    /\ gcall[1].pc = "done" /\ gcall[1].err
    /\ neo.promises[gcall[1].awaits] = "resolved" /\ neo.driver # Null
    /\ neo.open = 0

----------------------------------------------------------------------------
(* Properties of the driver's initialisation.                               *)

(* The initialisations that are pending or have succeeded. *)
LiveInits == {i \in 1..Len(neo.promises) : neo.promises[i] \in {"pending", "resolved"}}

(* C14: at most one initialisation is pending or succeeded at any time;     *)
(* while one is, no step constructs a driver or makes another promise, and  *)
(* every operation that starts awaits the promise of that initialisation.   *)
C14_SingleInitialization ==
    /\ [](Cardinality(LiveInits) <= 1)
    /\ [][LiveInits # {} =>
            /\ neo'.built = neo.built
            /\ Len(neo'.promises) = Len(neo.promises)
            /\ \A p \in GraphClients :
                  (gcall[p].pc = "idle" /\ gcall'[p].pc = "session")
                     => gcall'[p].awaits \in LiveInits]_vars

(* Both clients have called an operation while the constructor's            *)
(* initialisation is pending: they await its promise, one driver was built. *)
C14_Witness ==
    /\ gcall[1].pc = "session" /\ gcall[2].pc = "session"
    /\ gcall[1].awaits = 1 /\ gcall[2].awaits = 1
    /\ neo.promises = <<"pending">>
    /\ neo.built = 1

----------------------------------------------------------------------------
(* Properties of followUser's failures.                                     *)

(* C15: a statement of followUser(a, b) either succeeds or makes the call   *)
(* reject: the first leaves both nodes in the store, the second leaves the  *)
(* relationship; a failed statement changes nothing in the store, so after  *)
(* a failed merge the nodes of a and b are there and no relationship was    *)
(* added; the rejection reaches the caller, with no boolean in its place;   *)
(* no step removes a node.                                                  *)
C15_FollowFailurePropagates ==
    [][/\ nodes \subseteq nodes'
       /\ \A p \in GraphClients :
             LET a == gcall[p].a
                 b == gcall[p].b
             IN  gcall[p].op = "follow" =>
                   /\ (gcall[p].pc = "ensure" /\ gcall'[p].pc # "ensure") =>
                         \/ /\ gcall'[p].pc = "merge" /\ ~gcall'[p].err
                            /\ {a, b} \subseteq nodes'
                         \/ /\ gcall'[p].pc = "closing" /\ gcall'[p].err
                            /\ nodes' = nodes /\ follows' = follows
                   /\ (gcall[p].pc = "merge" /\ gcall'[p].pc # "merge") =>
                         \/ /\ gcall'[p].pc = "merged" /\ ~gcall'[p].err
                            /\ isFollowing(nodes', follows', a, b)
                         \/ /\ gcall'[p].pc = "closing" /\ gcall'[p].err
                            /\ {a, b} \subseteq nodes'
                            /\ nodes' = nodes /\ follows' = follows
                   /\ (gcall[p].pc = "closing" /\ gcall'[p].pc # "closing") =>
                         /\ gcall'[p].pc = "done"
                         /\ gcall[p].err => gcall'[p].err
                         /\ gcall'[p].err => ~gcall'[p].ret /\ gcall'[p].val = <<>>]_vars

(* followUser(u1, u2) has rejected after the driver was connected: u1 and   *)
(* u2 are nodes of the store and u1 does not follow u2.                     *)
C15_Witness ==
    /\ gcall[1].op = "follow" /\ gcall[1].a = "u1" /\ gcall[1].b = "u2"
    /\ gcall[1].pc = "done" /\ gcall[1].err /\ ~gcall[1].ret
    /\ neo.promises[gcall[1].awaits] = "resolved"
    /\ gcall[2] = IdleCall
    /\ nodes = {"u1", "u2"}
    /\ ~isFollowing(nodes, follows, "u1", "u2")

----------------------------------------------------------------------------
(* Properties of the driver after a failed initialisation.                  *)

(* Some initialisation has failed and none is pending or succeeded. *)
InitFailed ==
    /\ \E i \in 1..Len(neo.promises) : neo.promises[i] = "rejected"
    /\ LiveInits = {}

(* C16, as stated: once an initialisation has failed, and until another has *)
(* succeeded, no step constructs a driver.                                  *)
C16_NoConstructionAfterFailure ==
    [][InitFailed => neo'.built = neo.built]_vars

(* The verification of initialisation i fails in this step. *)
VerificationFails(i) ==
    /\ i \in 1..Len(neo.promises)
    /\ neo.promises[i] = "pending" /\ neo'.promises[i] = "rejected"

(* C16, amended: a failed verification resets driver and connectionPromise  *)
(* and constructs nothing; the operations awaiting it reject without a      *)
(* session; a driver is constructed only in the step in which an operation  *)
(* starts and finds connectionPromise null, and that operation awaits the   *)
(* new initialisation, getting a session only once it has succeeded.        *)
C16_RetryOnNextOperation ==
    [][/\ \A i \in 1..MaxInits : VerificationFails(i) =>
             /\ neo'.driver = Null /\ neo'.connectionPromise = Null
             /\ neo'.built = neo.built
             /\ Len(neo'.promises) = Len(neo.promises)
       /\ \A p \in GraphClients :
             /\ (/\ gcall[p].pc = "session" /\ gcall'[p].pc # "session"
                 /\ neo.promises[gcall[p].awaits] = "rejected")
                => gcall'[p].pc = "done" /\ gcall'[p].err /\ neo'.open = neo.open
             /\ (gcall[p].pc = "session" /\ gcall'[p].pc \notin {"session", "done"})
                => neo.promises[gcall[p].awaits] = "resolved"
       /\ neo'.built # neo.built =>
             /\ neo.connectionPromise = Null
             /\ neo'.built = neo.built + 1
             /\ \E p \in GraphClients :
                   /\ gcall[p].pc = "idle" /\ gcall'[p].pc = "session"
                   /\ gcall'[p].awaits = Len(neo'.promises)
                   /\ neo'.promises[gcall'[p].awaits] = "pending"]_vars

(* The constructor's initialisation failed its verification; the operation  *)
(* issued afterwards constructed a second driver, whose verification        *)
(* succeeded, and holds a session.                                          *)
C16_Witness ==
    /\ neo.promises = <<"rejected", "resolved">>
    /\ neo.built = 2
    /\ gcall[1].awaits = 2
    /\ gcall[1].pc \in {"ensure", "merge", "delete"}

----------------------------------------------------------------------------
(* Properties of the creators query.                                        *)

(* res is rows sorted by score descending, then id, and cut to lim rows. *)
SortedAndCut(res, rows, lim) ==
    /\ SeqRange(res) \subseteq rows
    /\ Len(res) = Min(lim, Cardinality(rows))
    /\ \A i \in 1..(Len(res) - 1) : ~RowBefore(res[i + 1], res[i])
    /\ \A r \in rows \ SeqRange(res), q \in SeqRange(res) : ~RowBefore(r, q)

(* C17: getRecommendedContentCreators(u, limit) returns the rows of the     *)
(* followed_by_friends and popular_in_network patterns together, ordered    *)
(* as one list by score descending then id, and cut to limit rows.          *)
C17_WholeUnionOrdered ==
    [][Answered("getRecommendedContentCreators") =>
        SortedAndCut(gcall'[1].val,
                     FollowedByFriendsRows(nodes, follows, gcall[1].a)
                        \cup PopularInNetworkRows(nodes, follows, gcall[1].a),
                     gcall[1].lim)]_vars

----------------------------------------------------------------------------
(* Properties of the fallbacks of getRecommendedPosts.                      *)

(* C18: when getRecommendedPosts(u, count, ex) completes through its catch  *)
(* block, the list it returns is stored under the key of (u, count) with    *)
(* owner u and the time of the step; at every time less than CACHE_TTL      *)
(* later a read of that key without exclusions is answered from the entry   *)
(* with that list.                                                          *)
C18_ErrorFallbackCached ==
    [][\A k \in FeedClients :
          LET call == rcall'[k]
              ukey == UserKey(call.userId, call.count)
          IN  (rcall[k].pc # "done" /\ call.pc = "done" /\ call.source = "error_fallback")
              => /\ call.status = "resolved"
                 /\ call.userId # NoUser
                 /\ ukey \in DOMAIN cache'
                 /\ cache'[ukey].data = call.result
                 /\ cache'[ukey].userId = call.userId
                 /\ cache'[ukey].timestamp = clock
                 /\ \A t \in ClockValues :
                       (t >= clock /\ t - clock < CACHE_TTL)
                          => CacheLookup(cache', t, ukey, call.count, {}, FALSE)
                                = [served |-> TRUE, value |-> call.result,
                                   source |-> "cache"]]_vars

(* The posts query of a call with exclusions failed after creators were     *)
(* found; the trending list it returned is the entry of the user's key.     *)
C18_Witness ==
    \E k \in FeedClients :
        LET call == rcall[k]
            ukey == UserKey(call.userId, call.count)
        IN  /\ call.pc = "done" /\ call.source = "error_fallback"
            /\ call.creators # <<>> /\ call.excl # {}
            /\ call.result # <<>>
            /\ ukey \in DOMAIN cache /\ cache[ukey].data = call.result

(* A call that is getTrendingPosts(count, ex), made by the feed or by       *)
(* getRecommendedPosts for a caller without a user id.                      *)
NoUserCall(call) == call.fn = "recommended" /\ call.userId = NoUser

TrendingCall(call) == call.fn = "trending" \/ NoUserCall(call)

(* What a step of a getTrendingPosts(count, ex, skip) that was at position  *)
(* pc leaves: the answer of the cache check; or the query issued; or, the   *)
(* query settled, the empty list, or the sorted list returned and stored    *)
(* under the trending key.                                                  *)
TrendingContract(pc, call) ==
    LET tkey == TrendingKey(call.count)
        look == CacheLookup(cache, clock, tkey, call.count, call.excl, call.skip)
        sorted == TrendingSorted(docs, call.excl, clock)
    IN  /\ pc = "idle" =>
              /\ cache' = cache
              /\ IF look.served
                 THEN /\ call.pc = "done" /\ call.status = "resolved"
                      /\ call.result = look.value /\ call.queries = 0
                 ELSE call.pc = "trendingQuery" /\ call.queries = 1
        /\ pc = "trendingQuery" =>
              /\ call.pc = "done" /\ call.status = "resolved" /\ call.queries = 1
              /\ \/ call.via = "error" /\ call.result = <<>> /\ cache' = cache
                 \/ /\ call.via = "fresh" /\ call.result = Take(sorted, call.count)
                    /\ DOMAIN cache' = DOMAIN cache \cup {tkey}
                    /\ \A key \in DOMAIN cache \ {tkey} : cache'[key] = cache[key]
                    /\ cache'[tkey].data = Take(sorted, MAX_CACHED_POSTS)
                    /\ cache'[tkey].timestamp = clock
                    /\ cache'[tkey].source = "trending"

(* C19: getRecommendedPosts without a user id behaves, step by step, as     *)
(* getTrendingPosts(count, ex) does, both meeting the same contract for the *)
(* value returned; it never awaits the creators or the posts query, and no  *)
(* step of it adds, changes or removes an entry other than the trending     *)
(* one, which has source trending.                                          *)
C19_NoUserDelegates ==
    [][\A k \in FeedClients :
          LET call == rcall'[k]
          IN  (rcall'[k] # rcall[k] /\ call.pc # "idle" /\ TrendingCall(call))
              => /\ TrendingContract(rcall[k].pc, call)
                 /\ call.pc \in {"trendingQuery", "done"}
                 /\ call.creators = <<>>
                 /\ NoUserCall(call) =>
                       \A key \in DOMAIN cache \cup DOMAIN cache' :
                          \/ key \in DOMAIN cache /\ key \in DOMAIN cache'
                                /\ cache'[key] = cache[key]
                          \/ key = TrendingKey(call.count)
                                /\ cache'[key].source # "social_network"]_vars

(* A call without a user id has returned the freshly computed trending list *)
(* of a store with posts; the cache holds the trending entry and nothing    *)
(* under a user's key.                                                      *)
C19_Witness ==
    \E k \in FeedClients :
        /\ NoUserCall(rcall[k]) /\ rcall[k].pc = "done"
        /\ rcall[k].source = "trending_fallback_no_user" /\ rcall[k].via = "fresh"
        /\ rcall[k].result # <<>>
        /\ DOMAIN cache = {TrendingKey(rcall[k].count)}

----------------------------------------------------------------------------
(* Properties of preloadCache.                                              *)

(* The entry under key is younger than CACHE_TTL at time t in cache c. *)
Young(c, key, t) == key \in DOMAIN c /\ t - c[key].timestamp < CACHE_TTL

(* Client k's preloadCache for a user id completes in this step. *)
PreloadCompletes(k) ==
    /\ rcall[k].pc # "done" /\ rcall'[k].pc = "done"
    /\ rcall'[k].fn = "preload" /\ rcall'[k].userId # NoUser

(* C20, as stated: when preloadCache(u) completes it has resolved, the key  *)
(* of (u, 10) holds a valid entry, and so does the trending key for 10 when *)
(* its entry was valid or the trending query of preloadCache answered; the  *)
(* same call made at once is answered from the cache.                       *)
C20_PreloadLeavesValidEntries ==
    [][\A k \in FeedClients :
          LET call == rcall'[k]
              ukey == UserKey(call.userId, PreloadCount)
              tkey == TrendingKey(PreloadCount)
          IN  PreloadCompletes(k)
              => /\ call.status = "resolved"
                 /\ Young(cache', ukey, clock)
                 /\ (call.hasTrendingCache \/ call.fetched) => Young(cache', tkey, clock)
                 /\ CacheLookup(cache', clock, ukey, PreloadCount, {}, FALSE).served]_vars

(* C20, amended: preloadCache reads the validity of the two entries once,   *)
(* when called.  It never rejects.  It issues the creators query only when  *)
(* the user's entry is not valid at that moment and a trending query only   *)
(* when the trending entry is not, and it leaves an entry of the user that  *)
(* was valid at the call as it is.  When its trending query answers, the    *)
(* trending entry is written with the time of the answer.  At completion    *)
(* the user's key holds an entry: the one that was valid at the call, or    *)
(* one valid at completion; a read of it without exclusions at any time at  *)
(* which it is younger than CACHE_TTL is answered from it.                  *)
C20_PreloadWarmsCache ==
    [][\A k \in FeedClients :
          LET call == rcall'[k]
              ukey == UserKey(call.userId, PreloadCount)
              tkey == TrendingKey(PreloadCount)
          IN  (rcall'[k] # rcall[k] /\ call.fn = "preload")
              => /\ call.status # "rejected"
                 /\ rcall[k].pc = "idle" =>
                       /\ cache' = cache
                       /\ call.userId = NoUser => call.pc = "done" /\ call.queries = 0
                       /\ call.userId # NoUser =>
                             /\ call.hasSocialCache = Young(cache, ukey, clock)
                             /\ call.hasTrendingCache = Young(cache, tkey, clock)
                             /\ (call.hasSocialCache /\ call.hasTrendingCache)
                                   => call.pc = "done" /\ call.queries = 0
                 /\ (call.pc = "session" /\ rcall[k].pc # "session")
                       => ~Young(cache, ukey, clock)
                 /\ (call.pc = "trendingQuery" /\ rcall[k].pc # "trendingQuery")
                       => ~Young(cache, tkey, clock)
                 /\ call.hasSocialCache =>
                       /\ ukey \in DOMAIN cache /\ ukey \in DOMAIN cache'
                       /\ cache'[ukey] = cache[ukey]
                       /\ call.pc \in {"trendingQuery", "done"}
                 /\ (rcall[k].pc = "trendingQuery" /\ rcall[k].cont = "preload"
                       /\ call.fetched)
                       => tkey \in DOMAIN cache' /\ cache'[tkey].timestamp = clock
                 /\ PreloadCompletes(k) =>
                       /\ call.status = "resolved"
                       /\ ukey \in DOMAIN cache'
                       /\ ~call.hasSocialCache => Young(cache', ukey, clock)
                       /\ \A t \in ClockValues :
                             (t >= clock /\ Young(cache', ukey, t))
                                => CacheLookup(cache', t, ukey, PreloadCount, {}, FALSE)
                                      = [served |-> TRUE,
                                         value |-> Take(cache'[ukey].data, PreloadCount),
                                         source |-> "cache"]]_vars

(* preloadCache found the user's entry valid and the trending entry not;    *)
(* while it awaited the trending query the user's entry reached CACHE_TTL:  *)
(* it has completed and the entry is no longer valid.                       *)
C20_Witness ==
    \E k \in FeedClients :
        LET ukey == UserKey(rcall[k].userId, PreloadCount)
        IN  /\ rcall[k].fn = "preload" /\ rcall[k].pc = "done"
            /\ rcall[k].userId = "u1"
            /\ rcall[k].hasSocialCache /\ rcall[k].fetched
            /\ ukey \in DOMAIN cache
            /\ ~Young(cache, ukey, clock)

----------------------------------------------------------------------------
(* Properties of rankPosts.                                                 *)

(* The final score of post x as the claim gives it, in millionths: the      *)
(* score of the author's row in the creator list (of the last such row), or *)
(* 1 without one, plus likes * 1 + comments * 1.5, plus the recency term.   *)
FinalScore(x, creators, now) ==
    LET rows == {i \in 1..Len(creators) : creators[i].id = Post[x].authorId}
        base == IF rows = {} THEN 1
                ELSE creators[CHOOSE i \in rows : \A j \in rows : j <= i].score
    IN  1000000 * base + 1000000 * Post[x].likes + 1500000 * Post[x].comments
            + RecencyMicro[now - Post[x].createdAt]

(* Twice (creator score + engagement): the part of the score in the integers *)
RankBase2(x, creators) == 2 * CreatorInfo(creators, Post[x].authorId).score + Engagement2(x)

RankAge(x, now) == now - Post[x].createdAt

(* The final score is base + 10 / (1 + ln(1 + hours)).  The recency term is  *)
(* strictly decreasing in the age and lies in (0, 10] for an age >= 0, which *)
(* decides the comparison of two scores whenever RankDecided holds.          *)
RankDecided(x, y, creators, now) ==
    LET d == RankBase2(x, creators) - RankBase2(y, creators)
        ax == RankAge(x, now)
        ay == RankAge(y, now)
    IN  /\ ax >= 0 /\ ay >= 0
        /\ \/ ax = ay
           \/ d >= 20 \/ d <= 0 - 20
           \/ (d >= 0 /\ ax < ay)
           \/ (d <= 0 /\ ax > ay)

RankHigher(x, y, creators, now) ==
    LET d == RankBase2(x, creators) - RankBase2(y, creators)
        ax == RankAge(x, now)
        ay == RankAge(y, now)
    IN  IF ax = ay THEN d > 0
        ELSE IF d >= 20 THEN TRUE
        ELSE IF d <= 0 - 20 THEN FALSE
        ELSE d >= 0 /\ ax < ay

(* s holds the posts of in, each once, no post before one of a higher final *)
(* score, posts of equal final score in the order they have in in.          *)
RankedStably(s, in, creators, now) ==
    LET Pos(x) == CHOOSE i \in 1..Len(in) : in[i] = x
    IN  /\ Len(s) = Len(in)
        /\ SeqRange(s) = SeqRange(in)
        /\ \A i, j \in 1..Len(s) :
              i < j =>
                /\ FinalScore(s[i], creators, now) >= FinalScore(s[j], creators, now)
                /\ FinalScore(s[i], creators, now) = FinalScore(s[j], creators, now)
                      => Pos(s[i]) < Pos(s[j])

(* C21: rankPosts returns its input posts, each once, no post before one of *)
(* higher final score, posts of equal final score in their input order;     *)
(* where the integer part of the scores and the monotonicity of the recency *)
(* term decide which of two posts has the higher score, the list agrees     *)
(* with that too; no other list of the posts is ordered so, the order being *)
(* a function of the posts, the creators and the clock alone; and a         *)
(* repeated call with the same posts, creators and clock returns the same   *)
(* list.                                                                    *)
C21_RankPostsStableOrder ==
    [][\A k \in FeedClients :
          LET in == rcall[k].posts
              out == rcall'[k].result
              c == rcall[k].creators
          IN  (rcall[k].pc = "ranking" /\ rcall'[k].pc = "done")
              => /\ RankedStably(out, in, c, clock)
                 /\ \A i, j \in 1..Len(out) :
                       (i < j /\ RankDecided(out[i], out[j], c, clock))
                          => ~RankHigher(out[j], out[i], c, clock)
                 /\ \A s \in [1..Len(in) -> SeqRange(in)] :
                       RankedStably(s, in, c, clock) => s = out
                 /\ rcall[k].result # <<>> => out = rcall[k].result]_vars

(* p4 and p1 have the same final score and p3 a lower one: p4, given first, *)
(* stays before p1, and a second call has returned the same list.           *)
C21_Witness ==
    \E k \in FeedClients :
        /\ rcall[k].fn = "rankPosts" /\ rcall[k].pc = "ranking"
        /\ rcall[k].creators = <<>>
        /\ rcall[k].posts = <<"p4", "p3", "p1">>
        /\ rcall[k].result = <<"p4", "p1", "p3">>

----------------------------------------------------------------------------
(* Properties of the eviction.                                              *)

(* The callbacks run in this step, the result of the statement of client    *)
(* p's followUser or unfollowUser having arrived.                           *)
Notifies(p) ==
    /\ gcall[p].pc \in {"merged", "deleted"}
    /\ gcall'[p].pc = "closing" /\ ~gcall'[p].err

(* C22: the step in which follow(a, b) or unfollow(a, b) notifies removes   *)
(* the entries whose userId field is a or b, whatever their count, and no   *)
(* other; every entry that stays, the trending entries among them, is left  *)
(* as it was; no other step of the graph service changes the cache.         *)
C22_EvictsExactlyOwners ==
    [][/\ \A p \in GraphClients :
             Notifies(p) =>
                /\ DOMAIN cache' =
                      {k \in DOMAIN cache : cache[k].userId \notin {gcall[p].a, gcall[p].b}}
                /\ \A k \in DOMAIN cache' : cache'[k] = cache[k]
                /\ \A n \in {2, 3} :
                      TrendingKey(n) \in DOMAIN cache => TrendingKey(n) \in DOMAIN cache'
       /\ (\A p \in GraphClients : ~Notifies(p)) => cache' = cache]_vars

(* follow(u2, u3) has evicted the entries of u2 and u3; the two entries of  *)
(* u1 and the two trending entries are still there.                         *)
C22_Witness ==
    /\ gcall[1].op = "follow" /\ gcall[1].a = "u2" /\ gcall[1].b = "u3"
    /\ gcall[1].pc = "closing" /\ ~gcall[1].err
    /\ gcall[1].evicted = {UserKey("u2", 3), UserKey("u3", 2)}
    /\ DOMAIN cache = {UserKey("u1", 2), UserKey("u1", 3), TrendingKey(2), TrendingKey(3)}

----------------------------------------------------------------------------
(* Properties of concurrent calls for one key.                              *)

(* Call k, which found no usable entry when it started, settles in this     *)
(* step.                                                                    *)
Finishes(k) ==
    /\ rcall[k].pc \notin {"idle", "done"}
    /\ rcall'[k].pc = "done"

(* C23: two calls of getRecommendedPosts for one key that both missed the   *)
(* cache do not share work: each goes for its own session when it starts,   *)
(* whatever the other is doing, issues its own creators query when it has   *)
(* the session and its own post query on the fresh path; none is answered   *)
(* from the entry of the key; each stores the list it returns, with the     *)
(* time of its own finish, in the step in which it finishes; and the entry  *)
(* changes in no other step, so that after both the entry is that of the    *)
(* call that finished later.                                                *)
C23_NoSharingLastWriterWins ==
    [][/\ \A k \in RaceClients :
             /\ (rcall[k].pc = "idle" /\ rcall'[k].pc \notin {"idle", "done"}) =>
                    rcall'[k].pc = "session" /\ rcall'[k].queries = 0
             /\ (rcall[k].pc = "session" /\ rcall'[k].pc = "creatorsQuery") =>
                    rcall'[k].queries = 1 /\ neo'.open = neo.open + 1
             /\ Finishes(k) =>
                    LET key == UserKey(rcall[k].userId, rcall[k].count)
                    IN  /\ rcall'[k].source \in
                              {"fresh", "trending_fallback_no_creators", "error_fallback"}
                        /\ rcall'[k].source = "fresh" => rcall'[k].queries = 2
                        /\ key \in DOMAIN cache'
                        /\ cache'[key].timestamp = clock
                        /\ cache'[key].userId = rcall[k].userId
                        /\ Take(cache'[key].data, rcall[k].count) = rcall'[k].result
       /\ (\A k \in RaceClients : ~Finishes(k)) =>
             \A key \in {UserKey("u1", 3)} :
                /\ (key \in DOMAIN cache') = (key \in DOMAIN cache)
                /\ key \in DOMAIN cache => cache'[key] = cache[key]]_vars

(* Both calls have computed afresh within the lifetime of an entry, one     *)
(* with p1 excluded, and their lists differ; the entry is the list without  *)
(* p1, so the call that excluded it wrote after the other.                  *)
C23_Witness ==
    /\ clock = 0
    /\ rcall[1].pc = "done" /\ rcall[1].source = "fresh" /\ rcall[1].excl = {}
    /\ rcall[2].pc = "done" /\ rcall[2].source = "fresh" /\ rcall[2].excl = {"p1"}
    /\ rcall[1].result # rcall[2].result
    /\ UserKey("u1", 3) \in DOMAIN cache
    /\ Take(cache[UserKey("u1", 3)].data, 3) = rcall[2].result

----------------------------------------------------------------------------
(* Properties of a follow racing with the feed.                             *)

(* followUser(a, b) of client p has run its callbacks and no later          *)
(* operation of the client has begun.                                       *)
FollowNotified(p, a) ==
    /\ gcall[p].op = "follow" /\ gcall[p].a = a
    /\ gcall[p].pc \in {"closing", "done"} /\ ~gcall[p].err

(* C24: a call of getRecommendedPosts for a that stores its list after      *)
(* followUser(a, b) has evicted the entries of a computed that list from    *)
(* creators the graph with the edge a -> b gives.                           *)
C24_NoStaleEntryAfterFollow ==
    [][\A k \in FeedClients : \A p \in GraphClients :
          (/\ Finishes(k)
           /\ rcall[k].fn = "recommended" /\ rcall[k].userId # NoUser
           /\ rcall'[k].source \in {"fresh", "trending_fallback_no_creators"}
           /\ FollowNotified(p, rcall[k].userId))
          => rcall[k].creators \in
                getRecommendedContentCreators(nodes, follows, rcall[k].userId,
                                              CreatorsLimit)]_vars

----------------------------------------------------------------------------
(* Properties of what the entries hold.                                     *)

(* C25: the list stored under the trending key is the one a computation     *)
(* with no excluded post gives at the time the entry was stored, whatever   *)
(* the excludePostIds of the call that stored it.                           *)
C25_StoredListIgnoresExcludes ==
    \A n \in FeedCounts :
       TrendingKey(n) \in DOMAIN cache =>
          cache[TrendingKey(n)].data =
             Take(TrendingSorted(docs, {}, cache[TrendingKey(n)].timestamp),
                  MAX_CACHED_POSTS)

(* C26: an entry is no younger than the data it holds: when a fallback of   *)
(* getRecommendedPosts stores under the user's key a list that              *)
(* getTrendingPosts took from the trending entry, the new entry expires     *)
(* when the trending entry does.                                            *)
C26_CopyKeepsAge ==
    [][\A k \in FeedClients :
          LET ukey == UserKey(rcall[k].userId, rcall[k].count)
              tkey == TrendingKey(rcall[k].count)
          IN  (/\ Finishes(k)
               /\ rcall'[k].source \in {"trending_fallback_no_creators", "error_fallback"}
               /\ rcall'[k].via \in {"cache", "cache_filtered", "cache_strict_mode"})
              => /\ ukey \in DOMAIN cache'
                 /\ cache'[ukey].timestamp <= cache[tkey].timestamp]_vars

----------------------------------------------------------------------------
(* Properties of the rows of getRecommendedContentCreators.                 *)

(* C27: no two rows returned by getRecommendedContentCreators have the same *)
(* creator id.                                                              *)
C27_CreatorIdsDistinct ==
    [][Answered("getRecommendedContentCreators") =>
        \A i, j \in 1..Len(gcall'[1].val) :
           i # j => gcall'[1].val[i].id # gcall'[1].val[j].id]_vars

----------------------------------------------------------------------------
(* Properties of close().                                                   *)

(* C28: an operation that leaves getSession after the promise it awaited    *)
(* resolved has a session; and the rejection of a promise that is not the   *)
(* one connectionPromise holds changes neither connectionPromise nor the    *)
(* driver.                                                                  *)
C28_ResolvedInitGivesDriver ==
    [][/\ \A p \in GraphClients :
             (/\ gcall[p].pc = "session"
              /\ neo.promises[gcall[p].awaits] = "resolved"
              /\ gcall'[p].pc # "session")
             => ~gcall'[p].err
       /\ \A i \in 1..Len(neo.promises) :
             (/\ neo.promises[i] = "pending" /\ neo'.promises[i] = "rejected"
              /\ neo.connectionPromise # Null /\ neo.connectionPromise # i)
             => /\ neo'.connectionPromise = neo.connectionPromise
                /\ neo'.driver = neo.driver]_vars

----------------------------------------------------------------------------
(* Properties of the lists returned.                                        *)

(* C29: a list returned by getRecommendedPosts or getTrendingPosts holds no *)
(* post of the call's excludePostIds, whatever the cache held and whichever *)
(* path answered.                                                           *)
C29_NoExcludedPostReturned ==
    \A k \in FeedClients :
       (rcall[k].pc = "done" /\ rcall[k].fn \in {"recommended", "trending"}) =>
          \A i \in 1..Len(rcall[k].result) : rcall[k].result[i] \notin rcall[k].excl

(* getRecommendedPosts("u1", 3, ["p1"]) answered from an entry of u1 that   *)
(* holds p1, with the posts left after the filter.                          *)
C29_Witness ==
    \E k \in FeedClients :
       /\ rcall[k].pc = "done" /\ rcall[k].fn = "recommended"
       /\ rcall[k].userId = "u1" /\ rcall[k].excl = {"p1"}
       /\ rcall[k].source = "cache_filtered"
       /\ rcall[k].result # <<>>
       /\ UserKey("u1", 3) \in DOMAIN cache
       /\ \E i \in 1..Len(cache[UserKey("u1", 3)].data) :
             cache[UserKey("u1", 3)].data[i] = "p1"

(* C30: every row getRecommendedContentCreators(u) returns, from either     *)
(* pattern, names a user other than u that u does not follow, in graphs     *)
(* with self-follows and mutual follows as in any other; and the posts the  *)
(* feed fetches for these rows are by authors other than u that u does not  *)
(* follow.                                                                  *)
C30_CreatorsNeitherSelfNorFollowed ==
    [][Answered("getRecommendedContentCreators") =>
        LET u == gcall[1].a
            rows == gcall'[1].val
            posts == CreatorPosts(docs, rows, 3)
        IN  /\ \A i \in 1..Len(rows) :
                  /\ rows[i].id # u
                  /\ ~isFollowing(nodes, follows, u, rows[i].id)
                  /\ rows[i].reason \in {"followed_by_friends", "popular_in_network"}
            /\ \A j \in 1..Len(posts) :
                  /\ Post[posts[j]].authorId # u
                  /\ ~isFollowing(nodes, follows, u, Post[posts[j]].authorId)]_vars

(* u1 follows itself and u2, u2 follows u1 back: the statement has         *)
(* answered with rows of both patterns, and the author of a stored post is  *)
(* among the creators.                                                      *)
C30_Witness ==
    /\ gcall[1].op = "getRecommendedContentCreators" /\ gcall[1].pc = "closing"
    /\ ~gcall[1].err
    /\ isFollowing(nodes, follows, "u1", "u1")
    /\ isFollowing(nodes, follows, "u1", "u2") /\ isFollowing(nodes, follows, "u2", "u1")
    /\ \E i, j \in 1..Len(gcall[1].val) :
          /\ gcall[1].val[i].reason = "followed_by_friends"
          /\ gcall[1].val[j].reason = "popular_in_network"
    /\ CreatorPosts(docs, gcall[1].val, 3) # <<>>

====
